---- MODULE Spec2Model ----
(***************************************************************************)
(* Room registry and signaling state machine of the mediasoup backend.     *)
(*                                                                         *)
(* The REST handlers of src/src/server.ts and the socket handlers of       *)
(* registerMediasoupHandlers (src/unnamed/part_002) are modelled as one    *)
(* action per handler; a handler that awaits the media engine is split at  *)
(* the await into a Start and a Finish action.  The media engine itself    *)
(* (mediasoup) is modelled at its interface: handles with a closed flag,   *)
(* the close cascade transport -> producers/consumers and the              *)
(* "producerclose" notification of consumers.                              *)
(*                                                                         *)
(* Opaque payload that no handler ever reads back (userName, createdBy,    *)
(* createdAt, ICE/DTLS/RTP parameters, message text) is left out.          *)
(***************************************************************************)
EXTENDS Integers, Sequences, FiniteSets, TLC, Bags

(***************************************************************************)
(* Bounds of the model.                                                    *)
(***************************************************************************)
MaxSockets    == 2   \* connections ever opened
MaxRooms      == 2   \* rooms ever created
MaxClock      == 3   \* readings of new Date() by joinRoom
MaxGen        == 1   \* user ids generated by uuidv4() in joinRoom
MaxTransports == 2   \* transports the media engine ever creates
MaxProducers  == 2   \* producers the media engine ever creates
MaxConsumers  == 1   \* consumers the media engine ever creates
MaxPending    == 2   \* handlers suspended at an await at the same time
MaxMessages   == 2   \* chat messages ever stored
MaxDeleteMessages == 1   \* chat messages stored before a room is deleted
MaxHistory    == 52  \* chat messages a room holds when a client joins it

Sockets  == 1 .. MaxSockets
RoomIds  == 1 .. MaxRooms
NoRoom   == 0                      \* currentRoom = null
NoUser   == ""                     \* a missing (falsy) userId
UserIds  == {"u1", "u2"}           \* user ids that clients supply
Kinds    == {"audio", "video"}
Caps     == {"compatible", "incompatible"}   \* rtpCapabilities of a consume request

\* socket.id: socket.io draws it from the alphabet A-Z a-z 0-9 - _ , every id
\* of the same length.  The n-th connection gets the n-th id of this list.
IdChars == << <<"a", "b">>, <<"c", "-">>, <<"e", "f">>, <<"g", "h">>,
              <<"i", "j">>, <<"k", "l">> >>
SocketId(s) == IdChars[s]

\* uuidv4() as used for generated user ids: a value never seen before.
GenUserId(k) == "g" \o ToString(k)

(***************************************************************************)
(* JavaScript Map and string helpers.                                      *)
(***************************************************************************)
EmptyMap == [k \in {} |-> 0]
MapSet(m, k, v) == [x \in (DOMAIN m) \cup {k} |-> IF x = k THEN v ELSE m[x]]
MapDelete(m, k) == [x \in (DOMAIN m) \ {k} |-> m[x]]
MapDeleteAll(m, ks) == [x \in (DOMAIN m) \ ks |-> m[x]]
MapHas(m, k) == k \in DOMAIN m

\* key.startsWith(prefix)
StartsWith(key, prefix) ==
    /\ Len(key) >= Len(prefix)
    /\ SubSeq(key, 1, Len(prefix)) = prefix

\* key.split("-")[0]: the characters before the first "-"
SplitFirst(key) ==
    LET dashes == {i \in 1 .. Len(key) : key[i] = "-"}
    IN  IF dashes = {} THEN key
        ELSE SubSeq(key, 1, (CHOOSE i \in dashes : \A j \in dashes : i <= j) - 1)

\* `${socket.id}-${kind}` and `${socket.id}-${producerId}`
ProducerKey(s, kind) == SocketId(s) \o <<"-", kind>>
ConsumerKey(s, producerId) == SocketId(s) \o <<"-", ToString(producerId)>>

VARIABLES
    rooms,               \* keys of the registry Map<string, Room>
    nextRoom,            \* room objects created so far (ids are fresh)
    hostUserId,          \* room.hostUserId
    participants,        \* room.participants: socket.id -> Participant
    producerTransports,  \* room.producerTransports: socket.id -> transport
    consumerTransports,  \* room.consumerTransports: socket.id -> transport
    producers,           \* room.producers: `${socket.id}-${kind}` -> producer
    consumers,           \* room.consumers: `${socket.id}-${producerId}` -> consumer
    messages,            \* room.messages
    conn,                \* per socket: "idle" (not yet connected), "open", "closed"
    currentRoom,         \* per connection closure: currentRoom (a Room object or null)
    currentUserId,       \* per connection closure: currentUserId
    joined,              \* socket.io rooms the socket is in (socket.join)
    transports,          \* media engine: transport handles
    producerHandles,     \* media engine: producer handles
    consumerHandles,     \* media engine: consumer handles
    pending,             \* bag of handlers suspended at an await
    now,                 \* the clock read by new Date()
    nextGen,             \* generated user ids so far
    nextMsg,             \* messages created so far
    out,                 \* what the last handler answered and emitted
    firstJoin            \* history: per room and user id, the entry of its first join

roomVars == <<rooms, nextRoom, hostUserId, participants, producerTransports,
              consumerTransports, producers, consumers, messages>>
sockVars == <<conn, currentRoom, currentUserId, joined>>
gwVars   == <<transports, producerHandles, consumerHandles>>
vars == <<roomVars, sockVars, gwVars, pending, now, nextGen, nextMsg, out, firstJoin>>

NoReply == [op |-> "none"]

Init ==
    /\ rooms = {}
    /\ nextRoom = 0
    /\ hostUserId = [r \in RoomIds |-> NoUser]
    /\ participants = [r \in RoomIds |-> EmptyMap]
    /\ producerTransports = [r \in RoomIds |-> EmptyMap]
    /\ consumerTransports = [r \in RoomIds |-> EmptyMap]
    /\ producers = [r \in RoomIds |-> EmptyMap]
    /\ consumers = [r \in RoomIds |-> EmptyMap]
    /\ messages = [r \in RoomIds |-> <<>>]
    /\ conn = [s \in Sockets |-> "idle"]
    /\ currentRoom = [s \in Sockets |-> NoRoom]
    /\ currentUserId = [s \in Sockets |-> NoUser]
    /\ joined = [s \in Sockets |-> {}]
    /\ transports = <<>>
    /\ producerHandles = <<>>
    /\ consumerHandles = <<>>
    /\ pending = EmptyBag
    /\ now = 0
    /\ nextGen = 0
    /\ nextMsg = 0
    /\ out = [reply |-> NoReply, emits |-> <<>>]
    /\ firstJoin = [r \in RoomIds |-> EmptyMap]

(***************************************************************************)
(* socket.io broadcast targets.                                            *)
(***************************************************************************)
\* io.to(roomId): every connected socket that joined the socket.io room
InRoom(j, r) == {t \in Sockets : conn[t] = "open" /\ r \in j[t]}
\* socket.to(roomId): the same without the sender
Others(j, s, r) == InRoom(j, r) \ {s}

(***************************************************************************)
(* Media engine (mediasoup) at its interface.  A store is the part of the  *)
(* state that closing a handle can change: the handles and, through the    *)
(* "transportclose" listeners of the produce and consume handlers, the     *)
(* producers and consumers maps of the owner's current room.               *)
(***************************************************************************)
Store == [T |-> transports, P |-> producerHandles, C |-> consumerHandles,
          prod |-> producers, cons |-> consumers]

MarkClosed(h, ids) ==
    [i \in DOMAIN h |-> IF i \in ids THEN [h[i] EXCEPT !.closed = TRUE] ELSE h[i]]

\* producer.on("transportclose"): producer.close();
\* currentRoom?.producers.delete(existingProducerKey)
ProducerTransportClosed(S, ps, cr) ==
    [r \in RoomIds |->
        MapDeleteAll(S.prod[r],
            {ProducerKey(S.P[p].owner, S.P[p].kind) :
                p \in {q \in ps : cr[S.P[q].owner] = r}})]

\* consumer.on("transportclose"): consumer.close();
\* currentRoom?.consumers.delete(consumerKey)
ConsumerTransportClosed(S, cs, cr) ==
    [r \in RoomIds |->
        MapDeleteAll(S.cons[r],
            {ConsumerKey(S.C[c].owner, S.C[c].producer) :
                c \in {d \in cs : cr[S.C[d].owner] = r}})]

\* transport.close() for every transport of ts: closes the transport and every
\* producer and consumer on it, each of which fires its "transportclose" listener.
\* cr is the currentRoom of every connection closure.
TransportClose(S, ts, cr) ==
    LET hit == {t \in ts : ~S.T[t].closed}
        ps  == {p \in DOMAIN S.P : ~S.P[p].closed /\ S.P[p].transport \in hit}
        cs  == {c \in DOMAIN S.C : ~S.C[c].closed /\ S.C[c].transport \in hit}
    IN  [T |-> MarkClosed(S.T, hit),
         P |-> MarkClosed(S.P, ps),
         C |-> MarkClosed(S.C, cs),
         prod |-> ProducerTransportClosed(S, ps, cr),
         cons |-> ConsumerTransportClosed(S, cs, cr)]

\* producer.close() for every producer of ps (no listener of the handlers fires;
\* the consumers of the producer are notified later, see ProducerCloseEvent)
ProducerClose(S, ps) == [S EXCEPT !.P = MarkClosed(S.P, ps)]

\* consumer.close() for every consumer of cs
ConsumerClose(S, cs) == [S EXCEPT !.C = MarkClosed(S.C, cs)]

MapValues(m) == {m[k] : k \in DOMAIN m}

RECURSIVE SetToSeq(_)
\* the elements of a set of numbers in increasing order
SetToSeq(set) ==
    IF set = {} THEN <<>>
    ELSE LET m == CHOOSE x \in set : \A y \in set : x <= y
         IN  <<m>> \o SetToSeq(set \ {m})

(***************************************************************************)
(* REST: POST /api/rooms                                                   *)
(***************************************************************************)
CreateRoom(hostId) ==
    IF hostId = NoUser
    THEN /\ out' = [reply |-> [op |-> "createRoom", status |-> 400], emits |-> <<>>]
         /\ UNCHANGED <<roomVars, sockVars, gwVars, pending, now, nextGen, nextMsg, firstJoin>>
    ELSE /\ nextRoom < MaxRooms
         /\ nextRoom' = nextRoom + 1
         /\ rooms' = rooms \cup {nextRoom + 1}
         /\ hostUserId' = [hostUserId EXCEPT ![nextRoom + 1] = hostId]
         /\ out' = [reply |-> [op |-> "createRoom", status |-> 200,
                               roomId |-> nextRoom + 1, hostUserId |-> hostId],
                    emits |-> <<>>]
         /\ UNCHANGED <<participants, producerTransports, consumerTransports,
                        producers, consumers, messages, sockVars, gwVars, pending,
                        now, nextGen, nextMsg, firstJoin>>

(***************************************************************************)
(* Socket: connection                                                      *)
(***************************************************************************)
\* connections get their ids in the order in which they are opened
Connect(s) ==
    /\ conn[s] = "idle"
    /\ \A t \in Sockets : t < s => conn[t] # "idle"
    /\ conn' = [conn EXCEPT ![s] = "open"]
    /\ out' = [reply |-> NoReply,
               emits |-> << [ev |-> "connection-success", to |-> {s}] >>]
    /\ UNCHANGED <<roomVars, currentRoom, currentUserId, joined, gwVars, pending,
                   now, nextGen, nextMsg, firstJoin>>

(***************************************************************************)
(* REST: GET /api/rooms/:roomId                                            *)
(***************************************************************************)
GetRoomReply(r) ==
    IF r \notin rooms
    THEN [op |-> "getRoom", roomId |-> r, status |-> 404]
    ELSE [op |-> "getRoom", roomId |-> r, status |-> 200,
          participantCount |-> Cardinality(DOMAIN participants[r]),
          hostUserId |-> hostUserId[r],
          participants |-> {[userId |-> p.userId, joinedAt |-> p.joinedAt,
                             isHost |-> p.isHost] : p \in MapValues(participants[r])}]

GetRoom(r) ==
    /\ out' = [reply |-> GetRoomReply(r), emits |-> <<>>]
    /\ UNCHANGED <<roomVars, sockVars, gwVars, pending, now, nextGen, nextMsg, firstJoin>>

(***************************************************************************)
(* REST: DELETE /api/rooms/:roomId                                         *)
(***************************************************************************)
\* variant: only the two transport loops run
CloseAllOfRoomTransportsOnly(S, r, pts, cts, cr) ==
    TransportClose(TransportClose(S, MapValues(pts[r]), cr), MapValues(cts[r]), cr)

\* the four forEach(close) loops of the delete handler, in their order
CloseAllOfRoom(S, r, pts, cts, cr) ==
    LET S1 == TransportClose(S, MapValues(pts[r]), cr)
        S2 == TransportClose(S1, MapValues(cts[r]), cr)
        S3 == ProducerClose(S2, MapValues(S2.prod[r]))
    IN  ConsumerClose(S3, MapValues(S3.cons[r]))

\* variant: the host check is missing
DeleteStatusNoHostCheck(r, userId) ==
    IF userId = NoUser THEN 400
    ELSE IF r \notin rooms THEN 404
    ELSE 200

DeleteStatus(r, userId) ==
    IF userId = NoUser THEN 400
    ELSE IF r \notin rooms THEN 404
    ELSE IF hostUserId[r] # userId THEN 403
    ELSE 200

DeleteRoom(r, userId) ==
    LET status == DeleteStatus(r, userId)
        S == CloseAllOfRoom(Store, r, producerTransports, consumerTransports, currentRoom)
    IN  IF status # 200
        THEN /\ out' = [reply |-> [op |-> "deleteRoom", roomId |-> r, userId |-> userId,
                                   status |-> status],
                        emits |-> <<>>]
             /\ UNCHANGED <<roomVars, sockVars, gwVars, pending, now, nextGen, nextMsg, firstJoin>>
        ELSE /\ transports' = S.T
             /\ producerHandles' = S.P
             /\ consumerHandles' = S.C
             /\ producers' = S.prod
             /\ consumers' = S.cons
             \* mediasoupNamespace.to(roomId).emit("roomDeleted") comes before
             \* rooms.delete(roomId): registry is the registry the emit is made in
             /\ out' = [reply |-> [op |-> "deleteRoom", roomId |-> r, userId |-> userId,
                                   status |-> 200],
                        emits |-> << [ev |-> "roomDeleted", to |-> InRoom(joined, r),
                                      roomId |-> r, registry |-> rooms] >>]
             /\ rooms' = rooms \ {r}
             /\ UNCHANGED <<nextRoom, hostUserId, participants, producerTransports,
                            consumerTransports, messages, sockVars, pending, now,
                            nextGen, nextMsg, firstJoin>>

(***************************************************************************)
(* Socket: joinRoom                                                        *)
(***************************************************************************)
HistoryLimit == 50   \* room.messages.slice(-50)

\* variant: seq.slice(0, n), the first n
FirstN(seq, n) ==
    IF Len(seq) <= n THEN seq ELSE SubSeq(seq, 1, n)

\* seq.slice(-n)
LastN(seq, n) ==
    IF Len(seq) <= n THEN seq ELSE SubSeq(seq, Len(seq) - n + 1, Len(seq))

\* the keys of the entries that the reconnection loop can stop at
ExistingKeys(r, uid) ==
    {k \in DOMAIN participants[r] : participants[r][k].userId = uid}

\* variant: the reconnection loop finds the entry and leaves it in the map
RemoveExistingKeepsEntry(parts, ex) == parts

\* room.participants.delete(socketId) for the entry the loop stopped at
RemoveExisting(parts, ex) == IF ex = <<>> THEN parts ELSE MapDelete(parts, ex)

\* variant: the size test is off by one (size <= 1 instead of size === 0)
IsHostOffByOne(isReconnection, existingIsHost, size) ==
    (isReconnection /\ existingIsHost) \/ size <= 1

\* existingParticipant?.isHost || room.participants.size === 0
IsHost(isReconnection, existingIsHost, size) ==
    (isReconnection /\ existingIsHost) \/ size = 0

\* existingParticipant?.joinedAt || new Date()
JoinedAt(isReconnection, existingJoinedAt, date) ==
    IF isReconnection THEN existingJoinedAt ELSE date

\* the producers listed to a caller with user id uid: the entries whose key,
\* cut at its first "-", is the socket id of a participant of another user
VisibleProducers(prod, parts, uid) ==
    {[producerId |-> prod[k], socketId |-> SplitFirst(k),
      userId |-> parts[SplitFirst(k)].userId] :
        k \in {x \in DOMAIN prod :
                /\ SplitFirst(x) \in DOMAIN parts
                /\ parts[SplitFirst(x)].userId # uid}}

JoinRoom(s, r, userIdIn) ==
    /\ conn[s] = "open"
    /\ IF r \notin rooms
       THEN /\ out' = [reply |-> [op |-> "joinRoom", sock |-> s, roomId |-> r,
                                  error |-> "Room not found"],
                       emits |-> <<>>]
            /\ UNCHANGED <<roomVars, sockVars, gwVars, pending, now, nextGen, nextMsg, firstJoin>>
       ELSE LET gen == userIdIn = NoUser
                finalUserId == IF gen THEN GenUserId(nextGen + 1) ELSE userIdIn
                found == ExistingKeys(r, finalUserId)
            IN  /\ gen => nextGen < MaxGen
                /\ \E ex \in (IF found = {} THEN {<<>>} ELSE found) :
                    LET isReconnection == ex # <<>>
                        existing == participants[r][ex]
                        P1 == RemoveExisting(participants[r], ex)
                        isHost == IsHost(isReconnection,
                                         isReconnection /\ existing.isHost,
                                         Cardinality(DOMAIN P1))
                        joinedAt == JoinedAt(isReconnection,
                                             IF isReconnection THEN existing.joinedAt ELSE 0,
                                             now + 1)
                        P2 == MapSet(P1, SocketId(s),
                                     [socketId |-> SocketId(s), userId |-> finalUserId,
                                      joinedAt |-> joinedAt, isHost |-> isHost])
                    IN  /\ ~isReconnection => now < MaxClock
                        /\ now' = IF isReconnection THEN now ELSE now + 1
                        /\ nextGen' = IF gen THEN nextGen + 1 ELSE nextGen
                        /\ currentUserId' = [currentUserId EXCEPT ![s] = finalUserId]
                        /\ currentRoom' = [currentRoom EXCEPT ![s] = r]
                        /\ participants' = [participants EXCEPT ![r] = P2]
                        /\ joined' = [joined EXCEPT ![s] = @ \cup {r}]
                        /\ out' = [reply |-> [op |-> "joinRoom", sock |-> s, roomId |-> r,
                                              success |-> TRUE, userId |-> finalUserId,
                                              isHost |-> isHost,
                                              participants |-> MapValues(P2),
                                              existingProducers |->
                                                  VisibleProducers(producers[r], P2, finalUserId),
                                              messages |-> LastN(messages[r], HistoryLimit)],
                                   emits |-> << [ev |-> "peer-joined",
                                                 to |-> Others(joined', s, r),
                                                 socketId |-> SocketId(s),
                                                 userId |-> finalUserId, isHost |-> isHost,
                                                 isReconnection |-> isReconnection] >>]
                        /\ firstJoin' =
                              IF MapHas(firstJoin[r], finalUserId) THEN firstJoin
                              ELSE [firstJoin EXCEPT ![r] =
                                       MapSet(@, finalUserId,
                                              [isHost |-> isHost,
                                               joinedAt |-> joinedAt])]
                        /\ UNCHANGED <<rooms, nextRoom, hostUserId, producerTransports,
                                       consumerTransports, producers, consumers, messages,
                                       conn, gwVars, pending, nextMsg>>

(***************************************************************************)
(* Socket: disconnect                                                      *)
(***************************************************************************)
\* the keys of a map that start with the socket's id
KeysOf(m, s) == {k \in DOMAIN m : StartsWith(k, SocketId(s))}

\* variant: the room is dropped from the registry when its last participant leaves
RoomsAfterLeaveDropsEmpty(rs, r, parts) == IF DOMAIN parts = {} THEN rs \ {r} ELSE rs

\* the registry after a participant has left room r, whose participants are
\* now parts: "// rooms.delete(currentRoom.id)" is commented out
RoomsAfterLeave(rs, r, parts) == rs

\* the body of the disconnect handler
DisconnectHandler(s) ==
    /\ IF currentRoom[s] = NoRoom \/ currentUserId[s] = NoUser
       THEN /\ out' = [reply |-> [op |-> "disconnect", sock |-> s], emits |-> <<>>]
            /\ UNCHANGED <<roomVars, gwVars>>
       ELSE LET r   == currentRoom[s]
                id  == SocketId(s)
                cr  == currentRoom
                \* producer transport, then consumer transport
                S1  == IF MapHas(producerTransports[r], id)
                       THEN TransportClose(Store, {producerTransports[r][id]}, cr)
                       ELSE Store
                S2  == IF MapHas(consumerTransports[r], id)
                       THEN TransportClose(S1, {consumerTransports[r][id]}, cr)
                       ELSE S1
                pts == [producerTransports EXCEPT ![r] = MapDelete(@, id)]
                cts == [consumerTransports EXCEPT ![r] = MapDelete(@, id)]
                \* the producers and the consumers under a key starting with the id
                pk  == KeysOf(S2.prod[r], s)
                pv  == {S2.prod[r][k] : k \in pk}
                S3  == [ProducerClose(S2, pv) EXCEPT !.prod[r] = MapDeleteAll(@, pk)]
                ck  == KeysOf(S3.cons[r], s)
                S4  == [ConsumerClose(S3, {S3.cons[r][k] : k \in ck})
                            EXCEPT !.cons[r] = MapDeleteAll(@, ck)]
                P1  == MapDelete(participants[r], id)
                \* room empty: close what is left in its maps
                S5  == IF DOMAIN P1 = {} THEN CloseAllOfRoom(S4, r, pts, cts, cr) ELSE S4
                to  == Others(joined, s, r)
                closedEmits == [i \in 1 .. Cardinality(pv) |->
                                   [ev |-> "producerClosed", to |-> to,
                                    producerId |-> SetToSeq(pv)[i],
                                    socketId |-> id, userId |-> currentUserId[s]]]
            IN  /\ producerTransports' = pts
                /\ consumerTransports' = cts
                /\ transports' = S5.T
                /\ producerHandles' = S5.P
                /\ consumerHandles' = S5.C
                /\ producers' = S5.prod
                /\ consumers' = S5.cons
                /\ participants' = [participants EXCEPT ![r] = P1]
                /\ out' = [reply |-> [op |-> "disconnect", sock |-> s],
                           emits |-> closedEmits \o
                                     << [ev |-> "peerLeft", to |-> to, socketId |-> id,
                                         userId |-> currentUserId[s]] >>]
                /\ rooms' = RoomsAfterLeave(rooms, r, P1)
                /\ UNCHANGED <<nextRoom, hostUserId, messages>>
    /\ UNCHANGED <<currentRoom, currentUserId, pending, now, nextGen, nextMsg, firstJoin>>

\* socket.on("disconnect"): socket.io has closed the connection and taken the
\* socket out of its rooms
Disconnect(s) ==
    /\ conn[s] = "open"
    /\ conn' = [conn EXCEPT ![s] = "closed"]
    /\ joined' = [joined EXCEPT ![s] = {}]
    /\ DisconnectHandler(s)

\* the disconnect handler run once more for a connection that is closed already
DisconnectAgain(s) ==
    /\ conn[s] = "closed"
    /\ UNCHANGED <<conn, joined>>
    /\ DisconnectHandler(s)

(***************************************************************************)
(* Socket: sendMessage                                                     *)
(***************************************************************************)
\* variant: the lookup of the sender's participant entry is left out
SendMessageAnySession(s, r) ==
    /\ conn[s] = "open"
    /\ IF currentRoom[s] = NoRoom \/ currentUserId[s] = NoUser \/ currentRoom[s] # r
       THEN /\ out' = [reply |-> [op |-> "sendMessage", sock |-> s, roomId |-> r,
                                  error |-> "Not in room"],
                       emits |-> <<>>]
            /\ UNCHANGED <<messages, nextMsg>>
       ELSE IF FALSE
       THEN /\ out' = [reply |-> [op |-> "sendMessage", sock |-> s, roomId |-> r,
                                  error |-> "Participant not found"],
                       emits |-> <<>>]
            /\ UNCHANGED <<messages, nextMsg>>
       ELSE /\ nextMsg < MaxMessages
            /\ nextMsg' = nextMsg + 1
            /\ messages' = [messages EXCEPT ![r] =
                                Append(@, [id |-> nextMsg + 1, userId |-> currentUserId[s]])]
            /\ out' = [reply |-> [op |-> "sendMessage", sock |-> s, roomId |-> r,
                                  success |-> TRUE, messageId |-> nextMsg + 1],
                       emits |-> << [ev |-> "newMessage", to |-> InRoom(joined, r),
                                     id |-> nextMsg + 1, userId |-> currentUserId[s]] >>]
    /\ UNCHANGED <<rooms, nextRoom, hostUserId, participants, producerTransports,
                   consumerTransports, producers, consumers, sockVars, gwVars, pending,
                   now, nextGen, firstJoin>>

\* variant: the message goes to the room without the sender (socket.to for io.to)
SendMessageToOthers(s, r) ==
    /\ conn[s] = "open"
    /\ IF currentRoom[s] = NoRoom \/ currentUserId[s] = NoUser \/ currentRoom[s] # r
       THEN /\ out' = [reply |-> [op |-> "sendMessage", sock |-> s, roomId |-> r,
                                  error |-> "Not in room"],
                       emits |-> <<>>]
            /\ UNCHANGED <<messages, nextMsg>>
       ELSE IF ~MapHas(participants[r], SocketId(s))
       THEN /\ out' = [reply |-> [op |-> "sendMessage", sock |-> s, roomId |-> r,
                                  error |-> "Participant not found"],
                       emits |-> <<>>]
            /\ UNCHANGED <<messages, nextMsg>>
       ELSE /\ nextMsg < MaxMessages
            /\ nextMsg' = nextMsg + 1
            /\ messages' = [messages EXCEPT ![r] =
                                Append(@, [id |-> nextMsg + 1, userId |-> currentUserId[s]])]
            /\ out' = [reply |-> [op |-> "sendMessage", sock |-> s, roomId |-> r,
                                  success |-> TRUE, messageId |-> nextMsg + 1],
                       emits |-> << [ev |-> "newMessage", to |-> Others(joined, s, r),
                                     id |-> nextMsg + 1, userId |-> currentUserId[s]] >>]
    /\ UNCHANGED <<rooms, nextRoom, hostUserId, participants, producerTransports,
                   consumerTransports, producers, consumers, sockVars, gwVars, pending,
                   now, nextGen, firstJoin>>

\* variant: the message is put in front (messages.unshift for messages.push)
SendMessagePrepends(s, r) ==
    /\ conn[s] = "open"
    /\ IF currentRoom[s] = NoRoom \/ currentUserId[s] = NoUser \/ currentRoom[s] # r
       THEN /\ out' = [reply |-> [op |-> "sendMessage", sock |-> s, roomId |-> r,
                                  error |-> "Not in room"],
                       emits |-> <<>>]
            /\ UNCHANGED <<messages, nextMsg>>
       ELSE IF ~MapHas(participants[r], SocketId(s))
       THEN /\ out' = [reply |-> [op |-> "sendMessage", sock |-> s, roomId |-> r,
                                  error |-> "Participant not found"],
                       emits |-> <<>>]
            /\ UNCHANGED <<messages, nextMsg>>
       ELSE /\ nextMsg < MaxMessages
            /\ nextMsg' = nextMsg + 1
            /\ messages' = [messages EXCEPT ![r] =
                                <<[id |-> nextMsg + 1, userId |-> currentUserId[s]]>> \o @]
            /\ out' = [reply |-> [op |-> "sendMessage", sock |-> s, roomId |-> r,
                                  success |-> TRUE, messageId |-> nextMsg + 1],
                       emits |-> << [ev |-> "newMessage", to |-> InRoom(joined, r),
                                     id |-> nextMsg + 1, userId |-> currentUserId[s]] >>]
    /\ UNCHANGED <<rooms, nextRoom, hostUserId, participants, producerTransports,
                   consumerTransports, producers, consumers, sockVars, gwVars, pending,
                   now, nextGen, firstJoin>>

SendMessage(s, r) ==
    /\ conn[s] = "open"
    /\ IF currentRoom[s] = NoRoom \/ currentUserId[s] = NoUser \/ currentRoom[s] # r
       THEN /\ out' = [reply |-> [op |-> "sendMessage", sock |-> s, roomId |-> r,
                                  error |-> "Not in room"],
                       emits |-> <<>>]
            /\ UNCHANGED <<messages, nextMsg>>
       ELSE IF ~MapHas(participants[r], SocketId(s))
       THEN /\ out' = [reply |-> [op |-> "sendMessage", sock |-> s, roomId |-> r,
                                  error |-> "Participant not found"],
                       emits |-> <<>>]
            /\ UNCHANGED <<messages, nextMsg>>
       ELSE /\ nextMsg < MaxMessages
            /\ nextMsg' = nextMsg + 1
            /\ messages' = [messages EXCEPT ![r] =
                                Append(@, [id |-> nextMsg + 1, userId |-> currentUserId[s]])]
            /\ out' = [reply |-> [op |-> "sendMessage", sock |-> s, roomId |-> r,
                                  success |-> TRUE, messageId |-> nextMsg + 1],
                       emits |-> << [ev |-> "newMessage", to |-> InRoom(joined, r),
                                     id |-> nextMsg + 1, userId |-> currentUserId[s]] >>]
    /\ UNCHANGED <<rooms, nextRoom, hostUserId, participants, producerTransports,
                   consumerTransports, producers, consumers, sockVars, gwVars, pending,
                   now, nextGen, firstJoin>>

(***************************************************************************)
(* Socket: createProducerTransport / createConsumerTransport               *)
(* The handler awaits createWebRtcTransport; the request is pending        *)
(* between the Start and the Finish action.                                *)
(***************************************************************************)
Reply(op, s, fields) == [reply |-> [op |-> op, sock |-> s] @@ fields, emits |-> <<>>]

PendingCount == BagCardinality(pending)
AddPending(req) == pending (+) SetToBag({req})
RemovePending(req) == pending (-) SetToBag({req})

TransportMapOf(dir) == IF dir = "send" THEN producerTransports ELSE consumerTransports
CreateOp(dir) ==
    IF dir = "send" THEN "createProducerTransport" ELSE "createConsumerTransport"

CreateTransportStart(s, dir) ==
    /\ conn[s] = "open"
    /\ IF currentRoom[s] = NoRoom
       THEN /\ out' = Reply(CreateOp(dir), s, [error |-> "Not in a room"])
            /\ UNCHANGED pending
       ELSE /\ PendingCount < MaxPending
            /\ pending' = AddPending([op |-> CreateOp(dir), sock |-> s, dir |-> dir,
                                      hung |-> FALSE])
            /\ out' = [reply |-> NoReply, emits |-> <<>>]
    /\ UNCHANGED <<roomVars, sockVars, gwVars, now, nextGen, nextMsg, firstJoin>>

\* router.createWebRtcTransport resolves (ok) or rejects (~ok)
CreateTransportFinish(req, ok) ==
    /\ BagIn(req, pending)
    /\ req.op \in {"createProducerTransport", "createConsumerTransport"}
    /\ ~req.hung
    /\ pending' = RemovePending(req)
    /\ IF ok
       THEN LET t == Len(transports) + 1
                r == currentRoom[req.sock]
            IN  /\ t <= MaxTransports
                /\ transports' = Append(transports,
                                        [owner |-> req.sock, dir |-> req.dir, closed |-> FALSE])
                /\ IF req.dir = "send"
                   THEN /\ producerTransports' =
                              [producerTransports EXCEPT ![r] = MapSet(@, SocketId(req.sock), t)]
                        /\ UNCHANGED consumerTransports
                   ELSE /\ consumerTransports' =
                              [consumerTransports EXCEPT ![r] = MapSet(@, SocketId(req.sock), t)]
                        /\ UNCHANGED producerTransports
                /\ out' = Reply(req.op, req.sock, [id |-> t])
       ELSE /\ out' = Reply(req.op, req.sock, [error |-> "Failed to create transport"])
            /\ UNCHANGED <<transports, producerTransports, consumerTransports>>
    /\ UNCHANGED <<rooms, nextRoom, hostUserId, participants, producers, consumers,
                   messages, sockVars, producerHandles, consumerHandles, now, nextGen,
                   nextMsg, firstJoin>>

(***************************************************************************)
(* Socket: connectProducerTransport / connectConsumerTransport             *)
(***************************************************************************)
ConnectOp(dir) ==
    IF dir = "send" THEN "connectProducerTransport" ELSE "connectConsumerTransport"

\* variant: a missing transport is skipped (transport?.connect()) and success answered
ConnectTransportOptional(s, dir, ok) ==
    /\ conn[s] = "open"
    /\ LET r == currentRoom[s]
           m == TransportMapOf(dir)
       IN  out' = IF r = NoRoom
                  THEN Reply(ConnectOp(dir), s,
                             [error |-> "Not in a room", gateway |-> <<>>])
                  ELSE IF ~MapHas(m[r], SocketId(s))
                  THEN Reply(ConnectOp(dir), s,
                             [success |-> TRUE, gateway |-> <<>>])
                  ELSE IF transports[m[r][SocketId(s)]].closed \/ ~ok
                  THEN Reply(ConnectOp(dir), s,
                             [error |-> "Server error", gateway |-> <<"connect">>])
                  ELSE Reply(ConnectOp(dir), s,
                             [success |-> TRUE, gateway |-> <<"connect">>])
    /\ UNCHANGED <<roomVars, sockVars, gwVars, pending, now, nextGen, nextMsg, firstJoin>>

\* transport.connect() rejects on a closed transport; ok is the engine's answer
\* on an open one.  The handler changes no state on either side of the await.
ConnectTransport(s, dir, ok) ==
    /\ conn[s] = "open"
    /\ LET r == currentRoom[s]
           m == TransportMapOf(dir)
       IN  out' = IF r = NoRoom
                  THEN Reply(ConnectOp(dir), s,
                             [error |-> "Not in a room", gateway |-> <<>>])
                  ELSE IF ~MapHas(m[r], SocketId(s))
                  THEN Reply(ConnectOp(dir), s,
                             [error |-> "transport not found", gateway |-> <<>>])
                  ELSE IF transports[m[r][SocketId(s)]].closed \/ ~ok
                  THEN Reply(ConnectOp(dir), s,
                             [error |-> "Server error", gateway |-> <<"connect">>])
                  ELSE Reply(ConnectOp(dir), s,
                             [success |-> TRUE, gateway |-> <<"connect">>])
    /\ UNCHANGED <<roomVars, sockVars, gwVars, pending, now, nextGen, nextMsg, firstJoin>>

(***************************************************************************)
(* Socket: produce                                                         *)
(***************************************************************************)
ProduceStart(s, kind) ==
    /\ conn[s] = "open"
    /\ LET r   == currentRoom[s]
           key == ProducerKey(s, kind)
       IN  IF r = NoRoom
           THEN /\ out' = Reply("produce", s, [error |-> "Not in a room", gateway |-> <<>>])
                /\ UNCHANGED <<producers, producerHandles, pending>>
           ELSE IF ~MapHas(producerTransports[r], SocketId(s))
           THEN /\ out' = Reply("produce", s, [error |-> "Producer transport not found",
                                                gateway |-> <<>>])
                /\ UNCHANGED <<producers, producerHandles, pending>>
           ELSE /\ PendingCount < MaxPending
                \* close the existing producer of the same kind
                /\ IF MapHas(producers[r], key)
                   THEN /\ producerHandles' = MarkClosed(producerHandles, {producers[r][key]})
                        /\ producers' = [producers EXCEPT ![r] = MapDelete(@, key)]
                   ELSE UNCHANGED <<producers, producerHandles>>
                /\ pending' = AddPending([op |-> "produce", sock |-> s, kind |-> kind,
                                          transport |-> producerTransports[r][SocketId(s)],
                                          hung |-> FALSE])
                /\ out' = [reply |-> NoReply, emits |-> <<>>]
    /\ UNCHANGED <<rooms, nextRoom, hostUserId, participants, producerTransports,
                   consumerTransports, consumers, messages, sockVars, transports,
                   consumerHandles, now, nextGen, nextMsg, firstJoin>>

\* variant: a failed produce ends the connection (socket.disconnect()) after the answer
ProduceFinishDropsConnection(req, ok) ==
    /\ BagIn(req, pending)
    /\ req.op = "produce"
    /\ ~req.hung
    /\ pending' = RemovePending(req)
    /\ IF ok /\ ~transports[req.transport].closed
       THEN LET p == Len(producerHandles) + 1
                r == currentRoom[req.sock]
            IN  /\ p <= MaxProducers
                /\ producerHandles' = Append(producerHandles,
                        [owner |-> req.sock, kind |-> req.kind,
                         transport |-> req.transport, closed |-> FALSE])
                /\ producers' = [producers EXCEPT
                                    ![r] = MapSet(@, ProducerKey(req.sock, req.kind), p)]
                /\ conn' = conn
                /\ out' = [reply |-> [op |-> "produce", sock |-> req.sock, id |-> p],
                           emits |-> << [ev |-> "newProducer",
                                         to |-> Others(joined, req.sock, r),
                                         producerId |-> p, socketId |-> SocketId(req.sock),
                                         userId |-> currentUserId[req.sock],
                                         kind |-> req.kind] >>]
       ELSE /\ out' = Reply("produce", req.sock, [error |-> "Server error in produce"])
            /\ conn' = [conn EXCEPT ![req.sock] = "closed"]
            /\ UNCHANGED <<producers, producerHandles>>
    /\ UNCHANGED <<rooms, nextRoom, hostUserId, participants, producerTransports,
                   consumerTransports, consumers, messages, currentRoom, currentUserId, joined,
                   transports,
                   consumerHandles, now, nextGen, nextMsg, firstJoin>>

\* transport.produce resolves (ok, possible on an open transport only) or rejects
ProduceFinish(req, ok) ==
    /\ BagIn(req, pending)
    /\ req.op = "produce"
    /\ ~req.hung
    /\ pending' = RemovePending(req)
    /\ IF ok /\ ~transports[req.transport].closed
       THEN LET p == Len(producerHandles) + 1
                r == currentRoom[req.sock]
            IN  /\ p <= MaxProducers
                /\ producerHandles' = Append(producerHandles,
                        [owner |-> req.sock, kind |-> req.kind,
                         transport |-> req.transport, closed |-> FALSE])
                /\ producers' = [producers EXCEPT
                                    ![r] = MapSet(@, ProducerKey(req.sock, req.kind), p)]
                /\ out' = [reply |-> [op |-> "produce", sock |-> req.sock, id |-> p],
                           emits |-> << [ev |-> "newProducer",
                                         to |-> Others(joined, req.sock, r),
                                         producerId |-> p, socketId |-> SocketId(req.sock),
                                         userId |-> currentUserId[req.sock],
                                         kind |-> req.kind] >>]
       ELSE /\ out' = Reply("produce", req.sock, [error |-> "Server error in produce"])
            /\ UNCHANGED <<producers, producerHandles>>
    /\ UNCHANGED <<rooms, nextRoom, hostUserId, participants, producerTransports,
                   consumerTransports, consumers, messages, sockVars, transports,
                   consumerHandles, now, nextGen, nextMsg, firstJoin>>

(***************************************************************************)
(* Socket: consume                                                         *)
(***************************************************************************)
\* router.canConsume({ producerId, rtpCapabilities }): the router knows the
\* producer (it exists and is not closed) and the capabilities fit it
CanConsume(producerId, caps) ==
    /\ producerId \in DOMAIN producerHandles
    /\ ~producerHandles[producerId].closed
    /\ caps = "compatible"

\* variant: the handler goes on when canConsume is false
ConsumeStartUnchecked(s, producerId, caps) ==
    /\ conn[s] = "open"
    /\ LET r == currentRoom[s]
       IN  IF r = NoRoom
           THEN /\ out' = Reply("consume", s, [error |-> "Not in a room", gateway |-> <<>>])
                /\ UNCHANGED pending
           ELSE IF ~MapHas(consumerTransports[r], SocketId(s))
           THEN /\ out' = Reply("consume", s, [error |-> "Consumer transport not found",
                                                gateway |-> <<>>])
                /\ UNCHANGED pending
           ELSE /\ PendingCount < MaxPending
                /\ pending' = AddPending([op |-> "consume", sock |-> s,
                                          producerId |-> producerId,
                                          transport |-> consumerTransports[r][SocketId(s)],
                                          hung |-> FALSE])
                /\ out' = [reply |-> NoReply, emits |-> <<>>]
    /\ UNCHANGED <<roomVars, sockVars, gwVars, now, nextGen, nextMsg, firstJoin>>

ConsumeStart(s, producerId, caps) ==
    /\ conn[s] = "open"
    /\ LET r == currentRoom[s]
       IN  IF r = NoRoom
           THEN /\ out' = Reply("consume", s, [error |-> "Not in a room", gateway |-> <<>>])
                /\ UNCHANGED pending
           ELSE IF ~CanConsume(producerId, caps)
           THEN /\ out' = Reply("consume", s, [error |-> "Cannot consume this producer",
                                                gateway |-> <<"canConsume">>])
                /\ UNCHANGED pending
           ELSE IF ~MapHas(consumerTransports[r], SocketId(s))
           THEN /\ out' = Reply("consume", s, [error |-> "Consumer transport not found",
                                                gateway |-> <<"canConsume">>])
                /\ UNCHANGED pending
           ELSE /\ PendingCount < MaxPending
                /\ pending' = AddPending([op |-> "consume", sock |-> s,
                                          producerId |-> producerId,
                                          transport |-> consumerTransports[r][SocketId(s)],
                                          hung |-> FALSE])
                /\ out' = [reply |-> NoReply, emits |-> <<>>]
    /\ UNCHANGED <<roomVars, sockVars, gwVars, now, nextGen, nextMsg, firstJoin>>

\* transport.consume resolves (ok, possible while the transport and the producer
\* are open) or rejects
ConsumeFinish(req, ok) ==
    /\ BagIn(req, pending)
    /\ req.op = "consume"
    /\ ~req.hung
    /\ pending' = RemovePending(req)
    /\ IF /\ ok
          /\ ~transports[req.transport].closed
          /\ req.producerId \in DOMAIN producerHandles
          /\ ~producerHandles[req.producerId].closed
       THEN LET c == Len(consumerHandles) + 1
                r == currentRoom[req.sock]
            IN  /\ c <= MaxConsumers
                /\ consumerHandles' = Append(consumerHandles,
                        [owner |-> req.sock, producer |-> req.producerId,
                         transport |-> req.transport, closed |-> FALSE, paused |-> TRUE])
                /\ consumers' = [consumers EXCEPT
                                    ![r] = MapSet(@, ConsumerKey(req.sock, req.producerId), c)]
                /\ out' = Reply("consume", req.sock,
                                [id |-> c, producerId |-> req.producerId])
       ELSE /\ out' = Reply("consume", req.sock, [error |-> "Server error in consume"])
            /\ UNCHANGED <<consumers, consumerHandles>>
    /\ UNCHANGED <<rooms, nextRoom, hostUserId, participants, producerTransports,
                   consumerTransports, producers, messages, sockVars, transports,
                   producerHandles, now, nextGen, nextMsg, firstJoin>>

\* consumer.on("producerclose"): the engine tells an open consumer that its
\* producer has closed; the consumer is closed, its key removed from the owner's
\* current room and producerClosed sent to the owner's socket
ProducerCloseEvent(c) ==
    /\ c \in DOMAIN consumerHandles
    /\ ~consumerHandles[c].closed
    /\ producerHandles[consumerHandles[c].producer].closed
    /\ LET s == consumerHandles[c].owner
           r == currentRoom[s]
       IN  /\ consumerHandles' = MarkClosed(consumerHandles, {c})
           /\ consumers' = [x \in RoomIds |->
                               IF x = r
                               THEN MapDelete(consumers[x],
                                              ConsumerKey(s, consumerHandles[c].producer))
                               ELSE consumers[x]]
           /\ out' = [reply |-> NoReply,
                      emits |-> << [ev |-> "producerClosed",
                                    to |-> {s} \cap {t \in Sockets : conn[t] = "open"},
                                    producerId |-> consumerHandles[c].producer] >>]
    /\ UNCHANGED <<rooms, nextRoom, hostUserId, participants, producerTransports,
                   consumerTransports, producers, messages, sockVars, transports,
                   producerHandles, pending, now, nextGen, nextMsg, firstJoin>>

(***************************************************************************)
(* Media engine: transport.on("dtlsstatechange") with state "closed", for  *)
(* a connected transport whose peer has closed the DTLS association.  The  *)
(* listener set by createWebRtcTransport runs first and closes the         *)
(* transport; the listener set by the create*Transport handler then        *)
(* deletes the key socket.id from the map of the owner's current room.     *)
(***************************************************************************)
DtlsClosed(t) ==
    /\ t \in DOMAIN transports
    /\ ~transports[t].closed
    /\ LET s == transports[t].owner
           r == currentRoom[s]
           S == TransportClose(Store, {t}, currentRoom)
       IN  /\ transports' = S.T
           /\ producerHandles' = S.P
           /\ consumerHandles' = S.C
           /\ producers' = S.prod
           /\ consumers' = S.cons
           /\ IF r = NoRoom
              THEN UNCHANGED <<producerTransports, consumerTransports>>
              ELSE IF transports[t].dir = "send"
              THEN /\ producerTransports' =
                         [producerTransports EXCEPT ![r] = MapDelete(@, SocketId(s))]
                   /\ UNCHANGED consumerTransports
              ELSE /\ consumerTransports' =
                         [consumerTransports EXCEPT ![r] = MapDelete(@, SocketId(s))]
                   /\ UNCHANGED producerTransports
    /\ out' = [reply |-> [op |-> "dtlsstatechange", transport |-> t], emits |-> <<>>]
    /\ UNCHANGED <<rooms, nextRoom, hostUserId, participants, messages, sockVars,
                   pending, now, nextGen, nextMsg, firstJoin>>

(***************************************************************************)
(* Socket: resumeConsumer / pauseConsumer                                  *)
(***************************************************************************)
ConsumerOps == {"resumeConsumer", "pauseConsumer"}

\* Array.from(currentRoom?.consumers.values() || []).find(c => c.id === consumerId)
FindConsumer(s, consumerId) ==
    IF currentRoom[s] = NoRoom THEN {}
    ELSE {c \in MapValues(consumers[currentRoom[s]]) : c = consumerId}

\* the handler up to await consumer.resume() / consumer.pause()
PauseResumeStart(s, op, consumerId) ==
    /\ conn[s] = "open"
    /\ op \in ConsumerOps
    /\ IF FindConsumer(s, consumerId) = {}
       THEN /\ out' = Reply(op, s, [consumerId |-> consumerId,
                                    error |-> "Consumer not found"])
            /\ UNCHANGED pending
       ELSE /\ PendingCount < MaxPending
            /\ pending' = AddPending([op |-> op, sock |-> s, consumer |-> consumerId,
                                      hung |-> FALSE])
            /\ out' = [reply |-> NoReply, emits |-> <<>>]
    /\ UNCHANGED <<roomVars, sockVars, gwVars, now, nextGen, nextMsg, firstJoin>>

\* consumer.resume() / consumer.pause() resolves (ok, possible while the
\* consumer is open) or rejects
PauseResumeFinish(req, ok) ==
    /\ BagIn(req, pending)
    /\ req.op \in ConsumerOps
    /\ ~req.hung
    /\ pending' = RemovePending(req)
    /\ IF ok /\ ~consumerHandles[req.consumer].closed
       THEN /\ consumerHandles' = [consumerHandles EXCEPT
                                      ![req.consumer].paused = (req.op = "pauseConsumer")]
            /\ out' = Reply(req.op, req.sock, [consumerId |-> req.consumer,
                                               success |-> TRUE])
       ELSE /\ out' = Reply(req.op, req.sock, [consumerId |-> req.consumer,
                                               error |-> "Server error in " \o req.op])
            /\ UNCHANGED consumerHandles
    /\ UNCHANGED <<roomVars, sockVars, transports, producerHandles, now, nextGen,
                   nextMsg, firstJoin>>

(***************************************************************************)
(* Media engine: a call that never settles.  The promise a handler awaits  *)
(* is settled by the engine's worker; nothing in the handlers bounds the   *)
(* wait, so a call the worker never answers leaves its handler suspended.  *)
(***************************************************************************)
EngineHangs(req) ==
    /\ BagIn(req, pending)
    /\ ~req.hung
    /\ pending' = AddPending([req EXCEPT !.hung = TRUE]) (-) SetToBag({req})
    /\ out' = [reply |-> NoReply, emits |-> <<>>]
    /\ UNCHANGED <<roomVars, sockVars, gwVars, now, nextGen, nextMsg, firstJoin>>

(***************************************************************************)
(* Socket: getProducers                                                    *)
(***************************************************************************)
GetProducers(s) ==
    /\ conn[s] = "open"
    /\ out' = IF currentRoom[s] = NoRoom
              THEN Reply("getProducers", s, [error |-> "Not in a room"])
              ELSE Reply("getProducers", s,
                         [producers |-> VisibleProducers(producers[currentRoom[s]],
                                                         participants[currentRoom[s]],
                                                         currentUserId[s])])
    /\ UNCHANGED <<roomVars, sockVars, gwVars, pending, now, nextGen, nextMsg, firstJoin>>

Next ==
    \/ \E h \in UserIds \cup {NoUser} : CreateRoom(h)
    \/ \E s \in Sockets : Connect(s)
    \/ \E r \in RoomIds : GetRoom(r)
    \/ \E r \in RoomIds, u \in UserIds \cup {NoUser} : DeleteRoom(r, u)
    \/ \E s \in Sockets, r \in RoomIds, u \in UserIds \cup {NoUser} : JoinRoom(s, r, u)
    \/ \E s \in Sockets : Disconnect(s)
    \/ \E s \in Sockets, r \in RoomIds : SendMessage(s, r)
    \/ \E s \in Sockets, d \in {"send", "recv"} : CreateTransportStart(s, d)
    \/ \E req \in BagToSet(pending), ok \in BOOLEAN : CreateTransportFinish(req, ok)
    \/ \E s \in Sockets, d \in {"send", "recv"}, ok \in BOOLEAN : ConnectTransport(s, d, ok)
    \/ \E s \in Sockets, k \in Kinds : ProduceStart(s, k)
    \/ \E req \in BagToSet(pending), ok \in BOOLEAN : ProduceFinish(req, ok)
    \/ \E s \in Sockets, p \in 1 .. MaxProducers, c \in Caps : ConsumeStart(s, p, c)
    \/ \E req \in BagToSet(pending), ok \in BOOLEAN : ConsumeFinish(req, ok)
    \/ \E c \in 1 .. MaxConsumers : ProducerCloseEvent(c)
    \/ \E s \in Sockets : GetProducers(s)
    \/ \E req \in BagToSet(pending) : EngineHangs(req)
    \/ \E s \in Sockets, op \in ConsumerOps, c \in 1 .. MaxConsumers : PauseResumeStart(s, op, c)
    \/ \E req \in BagToSet(pending), ok \in BOOLEAN : PauseResumeFinish(req, ok)
    \/ \E t \in 1 .. MaxTransports : DtlsClosed(t)

Spec == Init /\ [][Next]_vars

(***************************************************************************)
(* Scenarios: the same handlers, with the clients restricted to a family   *)
(* of runs small enough to explore exhaustively.                           *)
(***************************************************************************)
Solo == {s \in Sockets : s = 1}
Pair == {s \in Sockets : s <= 2}
\* a room id that can exist and one that never does
Known == {r \in RoomIds : r <= 2}

\* Membership of one room: any number of joins, rejoins and disconnects.
NextMembers ==
    \/ nextRoom = 0 /\ \E h \in UserIds \cup {NoUser} : CreateRoom(h)
    \/ \E s \in Sockets : Connect(s)
    \/ \E s \in Sockets, r \in RoomIds, u \in UserIds : JoinRoom(s, r, u)
    \/ \E s \in Sockets : Disconnect(s)
SpecMembers == Init /\ [][NextMembers]_vars

\* the user of the n-th connection when every connection has its own user
SocketUser(s) == IF s = 1 THEN "u1" ELSE "u2"

\* Membership of several rooms: two connections, each with its own user id,
\* that join each room at most once and may go from one room to the other.
NextSwitch ==
    \/ \E h \in UserIds : CreateRoom(h)
    \/ \E s \in Pair : Connect(s)
    \/ \E s \in Pair, r \in RoomIds : r \notin joined[s] /\ JoinRoom(s, r, SocketUser(s))
    \/ \E s \in Pair : Disconnect(s)
SpecSwitch == Init /\ [][NextSwitch]_vars

\* One room and one connection that joins once, sends messages, publishes video
\* and subscribes to it, one handler in flight at a time and the media engine
\* answering every call; the room and an unknown room id are read and deleted
\* over REST by the host, by another user and without a user id.
NextDelete ==
    \/ nextRoom = 0 /\ CreateRoom("u1")
    \/ \E s \in Solo : Connect(s)
    \/ \E s \in Solo, r \in rooms : currentRoom[s] = NoRoom /\ JoinRoom(s, r, SocketUser(s))
    \/ \E s \in Solo : /\ currentRoom[s] # NoRoom
                        /\ nextMsg < MaxDeleteMessages
                        /\ SendMessage(s, currentRoom[s])
    \/ \E r \in Known : GetRoom(r)
    \/ \E r \in Known, u \in UserIds \cup {NoUser} : DeleteRoom(r, u)
    \/ PendingCount = 0 /\ \E s \in Solo, d \in {"send", "recv"} : CreateTransportStart(s, d)
    \/ \E req \in BagToSet(pending) : CreateTransportFinish(req, TRUE)
    \/ PendingCount = 0 /\ \E s \in Solo : ProduceStart(s, "video")
    \/ \E req \in BagToSet(pending) : ProduceFinish(req, TRUE)
    \/ PendingCount = 0 /\ \E s \in Solo, q \in DOMAIN producerHandles :
          ConsumeStart(s, q, "compatible")
    \/ \E req \in BagToSet(pending) : ConsumeFinish(req, TRUE)
    \/ \E c \in 1 .. MaxConsumers : ProducerCloseEvent(c)
SpecDelete == Init /\ [][NextDelete]_vars

\* One room and one connection that joins once and publishes, with several
\* produce requests in flight at the same time.
NextProduce ==
    \/ nextRoom = 0 /\ \E h \in UserIds : CreateRoom(h)
    \/ \E s \in Solo : Connect(s)
    \/ \E s \in Solo, r \in RoomIds, u \in UserIds : currentRoom[s] = NoRoom /\ JoinRoom(s, r, u)
    \/ \E s \in Solo : Disconnect(s)
    \/ PendingCount = 0 /\ \E s \in Solo : CreateTransportStart(s, "send")
    \/ \E req \in BagToSet(pending), ok \in BOOLEAN : CreateTransportFinish(req, ok)
    \/ \E s \in Solo, k \in Kinds : ProduceStart(s, k)
    \/ \E req \in BagToSet(pending), ok \in BOOLEAN : ProduceFinish(req, ok)
SpecProduce == Init /\ [][NextProduce]_vars

\* the direction of the transport a connection asks for when the first
\* connection publishes and the others subscribe
RoleDir(s) == IF s = 1 THEN "send" ELSE "recv"

\* One room and two connections that join once each; the first publishes video,
\* the second subscribes, with fitting and unfitting capabilities, to producer
\* ids that exist, are closed or were never created; one handler in flight at a
\* time.
NextConsume ==
    \/ nextRoom = 0 /\ CreateRoom("u1")
    \/ \E s \in Pair : Connect(s)
    \/ \E s \in Pair, r \in rooms : currentRoom[s] = NoRoom /\ JoinRoom(s, r, SocketUser(s))
    \/ PendingCount = 0 /\ \E s \in Pair : CreateTransportStart(s, RoleDir(s))
    \/ \E req \in BagToSet(pending) : CreateTransportFinish(req, TRUE)
    \/ PendingCount = 0 /\ \E s \in Solo : ProduceStart(s, "video")
    \/ \E req \in BagToSet(pending) : ProduceFinish(req, TRUE)
    \/ PendingCount = 0 /\ \E s \in Pair \ Solo, q \in 1 .. MaxProducers, c \in Caps :
          ConsumeStart(s, q, c)
    \/ \E req \in BagToSet(pending), ok \in BOOLEAN : ConsumeFinish(req, ok)
    \/ \E c \in 1 .. MaxConsumers : ProducerCloseEvent(c)
SpecConsume == Init /\ [][NextConsume]_vars

\* One room and two connections that join once each, possibly as the same
\* user; both publish video, one handler in flight at a time.
NextPair ==
    \/ nextRoom = 0 /\ CreateRoom("u1")
    \/ \E s \in Pair : Connect(s)
    \/ \E s \in Pair, r \in rooms, u \in UserIds : currentRoom[s] = NoRoom /\ JoinRoom(s, r, u)
    \/ \E s \in Pair : Disconnect(s)
    \/ PendingCount = 0 /\ \E s \in Pair : CreateTransportStart(s, "send")
    \/ \E req \in BagToSet(pending) : CreateTransportFinish(req, TRUE)
    \/ PendingCount = 0 /\ \E s \in Pair : ProduceStart(s, "video")
    \/ \E req \in BagToSet(pending), ok \in BOOLEAN : ProduceFinish(req, ok)
SpecPair == Init /\ [][NextPair]_vars

\* The scenario of NextPair, with the disconnect handler of a closed connection
\* run again.
NextCleanup ==
    \/ NextPair
    \/ \E s \in Pair : DisconnectAgain(s)
SpecCleanup == Init /\ [][NextCleanup]_vars

\* One room and one connection that asks for transports of both directions,
\* connects them, publishes video and subscribes, in any order and so also
\* before it has joined or has the transport; one handler in flight at a time
\* and the engine creating what it is asked for.
NextSignal ==
    \/ nextRoom = 0 /\ CreateRoom("u1")
    \/ \E s \in Solo : Connect(s)
    \/ \E s \in Solo, r \in rooms : currentRoom[s] = NoRoom /\ JoinRoom(s, r, SocketUser(s))
    \/ PendingCount = 0 /\ \E s \in Solo, dir \in {"send", "recv"} :
           ~MapHas(TransportMapOf(dir)[1], SocketId(s)) /\ CreateTransportStart(s, dir)
    \/ \E req \in BagToSet(pending) : CreateTransportFinish(req, TRUE)
    \/ \E s \in Solo, dir \in {"send", "recv"}, ok \in BOOLEAN : ConnectTransport(s, dir, ok)
    \/ PendingCount = 0 /\ \E s \in Solo : ProduceStart(s, "video")
    \/ \E req \in BagToSet(pending) : ProduceFinish(req, TRUE)
    \/ PendingCount = 0 /\ \E s \in Solo, q \in 1..MaxProducers, c \in Caps :
           ConsumeStart(s, q, c)
    \/ \E req \in BagToSet(pending) : ConsumeFinish(req, TRUE)
SpecSignal == Init /\ [][NextSignal]_vars

\* One room and two connections with a user each that join once and disconnect,
\* while the room and an unknown room id are read and deleted over REST by the
\* host and by the other user.
NextRooms ==
    \/ nextRoom = 0 /\ CreateRoom("u1")
    \/ \E s \in Pair : Connect(s)
    \/ \E s \in Pair, r \in rooms : currentRoom[s] = NoRoom /\ JoinRoom(s, r, SocketUser(s))
    \/ \E s \in Pair : Disconnect(s)
    \/ \E r \in Known : GetRoom(r)
    \/ \E r \in Known, u \in UserIds : DeleteRoom(r, u)
SpecRooms == Init /\ [][NextRooms]_vars

\* One room and two connections that join it, also again and under either user
\* id, send messages to it and to another room id, and disconnect.
NextChat ==
    \/ nextRoom = 0 /\ CreateRoom("u1")
    \/ \E s \in Pair : Connect(s)
    \/ \E s \in Pair, r \in rooms, u \in UserIds : JoinRoom(s, r, u)
    \/ \E s \in Pair, r \in Known : SendMessage(s, r)
    \/ \E s \in Pair : Disconnect(s)
SpecChat == Init /\ [][NextChat]_vars

\* A room with a long chat history: the first connection has created room 1,
\* joined it as u1 and sent n messages, for every n up to MaxHistory; then both
\* connections join (again), under either user id, and disconnect.
InitHistory ==
    /\ rooms = {1}
    /\ nextRoom = 1
    /\ hostUserId = [r \in RoomIds |-> IF r = 1 THEN "u1" ELSE NoUser]
    /\ participants = [r \in RoomIds |->
                          IF r = 1
                          THEN MapSet(EmptyMap, SocketId(1),
                                      [socketId |-> SocketId(1), userId |-> "u1",
                                       joinedAt |-> 1, isHost |-> TRUE])
                          ELSE EmptyMap]
    /\ producerTransports = [r \in RoomIds |-> EmptyMap]
    /\ consumerTransports = [r \in RoomIds |-> EmptyMap]
    /\ producers = [r \in RoomIds |-> EmptyMap]
    /\ consumers = [r \in RoomIds |-> EmptyMap]
    /\ \E n \in 0 .. MaxHistory :
           /\ messages = [r \in RoomIds |->
                             IF r = 1 THEN [i \in 1 .. n |-> [id |-> i, userId |-> "u1"]]
                             ELSE <<>>]
           /\ nextMsg = n
    /\ conn = [s \in Sockets |-> IF s = 1 THEN "open" ELSE "idle"]
    /\ currentRoom = [s \in Sockets |-> IF s = 1 THEN 1 ELSE NoRoom]
    /\ currentUserId = [s \in Sockets |-> IF s = 1 THEN "u1" ELSE NoUser]
    /\ joined = [s \in Sockets |-> IF s = 1 THEN {1} ELSE {}]
    /\ transports = <<>>
    /\ producerHandles = <<>>
    /\ consumerHandles = <<>>
    /\ pending = EmptyBag
    /\ now = 1
    /\ nextGen = 0
    /\ out = [reply |-> NoReply, emits |-> <<>>]
    /\ firstJoin = [r \in RoomIds |->
                       IF r = 1
                       THEN MapSet(EmptyMap, "u1", [isHost |-> TRUE, joinedAt |-> 1])
                       ELSE EmptyMap]

NextHistory ==
    \/ \E s \in Pair : Connect(s)
    \/ \E s \in Pair, r \in rooms, u \in UserIds : JoinRoom(s, r, u)
    \/ \E s \in Pair : Disconnect(s)
SpecHistory == InitHistory /\ [][NextHistory]_vars

\* Two rooms and two connections: the first joins each room once, in any order
\* and under either user id, and publishes video; the second joins one room once
\* under its own user id, and both ask for the producers of their room.
NextListing ==
    \/ CreateRoom("u1")
    \/ \E s \in Pair : Connect(s)
    \/ \E s \in Solo, r \in rooms, u \in UserIds :
           r \notin joined[s] /\ JoinRoom(s, r, u)
    \/ \E s \in Pair \ Solo, r \in rooms :
           currentRoom[s] = NoRoom /\ JoinRoom(s, r, SocketUser(s))
    \/ PendingCount = 0 /\ \E s \in Solo :
           /\ currentRoom[s] # NoRoom
           /\ ~MapHas(producerTransports[currentRoom[s]], SocketId(s))
           /\ CreateTransportStart(s, "send")
    \/ \E req \in BagToSet(pending) : CreateTransportFinish(req, TRUE)
    \/ PendingCount = 0 /\ producerHandles = <<>> /\ \E s \in Solo : ProduceStart(s, "video")
    \/ \E req \in BagToSet(pending) : ProduceFinish(req, TRUE)
    \/ \E s \in Pair : GetProducers(s)
SpecListing == Init /\ [][NextListing]_vars

\* One connection in one room whose requests fail or succeed at the media
\* engine: transport creation one at a time, produce requests that overlap,
\* getProducers in between.
NextFailure ==
    \/ nextRoom = 0 /\ CreateRoom("u1")
    \/ \E s \in Solo : Connect(s)
    \/ \E s \in Solo, r \in rooms : currentRoom[s] = NoRoom /\ JoinRoom(s, r, SocketUser(s))
    \/ PendingCount = 0 /\ \E s \in Solo : CreateTransportStart(s, "send")
    \/ \E req \in BagToSet(pending), ok \in BOOLEAN : CreateTransportFinish(req, ok)
    \/ \E s \in Solo, k \in Kinds : ProduceStart(s, k)
    \/ \E req \in BagToSet(pending), ok \in BOOLEAN : ProduceFinish(req, ok)
    \/ \E s \in Solo : GetProducers(s)
SpecFailure == Init /\ [][NextFailure]_vars

\* Two rooms and two connections, each joining a room once; the first publishes
\* video in its room, the second subscribes from its own room to producer ids
\* of either room, one handler in flight at a time and the media engine
\* answering every call.
NextCross ==
    \/ CreateRoom("u1")
    \/ \E s \in Pair : Connect(s)
    \/ \E s \in Pair, r \in rooms : currentRoom[s] = NoRoom /\ JoinRoom(s, r, SocketUser(s))
    \/ PendingCount = 0 /\ \E s \in Pair : CreateTransportStart(s, RoleDir(s))
    \/ \E req \in BagToSet(pending) : CreateTransportFinish(req, TRUE)
    \/ PendingCount = 0 /\ producerHandles = <<>> /\ \E s \in Solo : ProduceStart(s, "video")
    \/ \E req \in BagToSet(pending) : ProduceFinish(req, TRUE)
    \/ PendingCount = 0 /\ \E s \in Pair \ Solo, q \in DOMAIN producerHandles :
          ConsumeStart(s, q, "compatible")
    \/ \E req \in BagToSet(pending) : ConsumeFinish(req, TRUE)
SpecCross == Init /\ [][NextCross]_vars

\* One room and two connections that join once each; the first publishes video,
\* the second subscribes to it, and both pause and resume consumers by id, one
\* handler in flight at a time.
NextPause ==
    \/ nextRoom = 0 /\ CreateRoom("u1")
    \/ \E s \in Pair : Connect(s)
    \/ \E s \in Pair, r \in rooms : currentRoom[s] = NoRoom /\ JoinRoom(s, r, SocketUser(s))
    \/ PendingCount = 0 /\ \E s \in Pair : CreateTransportStart(s, RoleDir(s))
    \/ \E req \in BagToSet(pending) : CreateTransportFinish(req, TRUE)
    \/ PendingCount = 0 /\ producerHandles = <<>> /\ \E s \in Solo : ProduceStart(s, "video")
    \/ \E req \in BagToSet(pending) : ProduceFinish(req, TRUE)
    \/ PendingCount = 0 /\ \E s \in Pair \ Solo, q \in DOMAIN producerHandles :
          ConsumeStart(s, q, "compatible")
    \/ \E req \in BagToSet(pending) : ConsumeFinish(req, TRUE)
    \/ PendingCount = 0 /\ \E s \in Pair, op \in ConsumerOps, c \in 1 .. MaxConsumers :
          PauseResumeStart(s, op, c)
    \/ \E req \in BagToSet(pending), ok \in BOOLEAN : PauseResumeFinish(req, ok)
SpecPause == Init /\ [][NextPause]_vars

\* One connection that joins each room at most once and asks for transports of
\* both directions, again and again, one handler in flight at a time; the
\* peer closes the DTLS association of any open transport.
NextDtls ==
    \/ CreateRoom("u1")
    \/ \E s \in Solo : Connect(s)
    \/ \E s \in Solo, r \in rooms : r \notin joined[s] /\ JoinRoom(s, r, SocketUser(s))
    \/ PendingCount = 0 /\ \E s \in Solo, dir \in {"send", "recv"} : CreateTransportStart(s, dir)
    \/ \E req \in BagToSet(pending) : CreateTransportFinish(req, TRUE)
    \/ \E t \in 1 .. MaxTransports : DtlsClosed(t)
SpecDtls == Init /\ [][NextDtls]_vars

\* One room and one connection that joins once, asks for a send transport and
\* publishes, one handler in flight at a time; the media engine settles a call
\* either way or never.  The continuation of a settled call is run: that is
\* the fairness of the event loop.
NextTimeout ==
    \/ nextRoom = 0 /\ CreateRoom("u1")
    \/ \E s \in Solo : Connect(s)
    \/ \E s \in Solo, r \in rooms : currentRoom[s] = NoRoom /\ JoinRoom(s, r, SocketUser(s))
    \/ PendingCount = 0 /\ Len(transports) < MaxTransports /\
           \E s \in Solo : CreateTransportStart(s, "send")
    \/ \E req \in BagToSet(pending), ok \in BOOLEAN : CreateTransportFinish(req, ok)
    \/ PendingCount = 0 /\ Len(producerHandles) < MaxProducers /\
           \E s \in Solo, k \in Kinds : ProduceStart(s, k)
    \/ \E req \in BagToSet(pending), ok \in BOOLEAN : ProduceFinish(req, ok)
    \/ \E req \in BagToSet(pending) : EngineHangs(req)
SpecTimeout ==
    /\ Init
    /\ [][NextTimeout]_vars
    /\ WF_vars(\E req \in BagToSet(pending), ok \in BOOLEAN : CreateTransportFinish(req, ok))
    /\ WF_vars(\E req \in BagToSet(pending), ok \in BOOLEAN : ProduceFinish(req, ok))

(***************************************************************************)
(* Properties of room membership.                                          *)
(***************************************************************************)

\* C1: for every room, the number of participant entries is the number of
\* successful joinRoom calls into the room minus the number of disconnects of
\* sessions that had joined it.  Step by step: a successful join into the room
\* adds one to both sides, a disconnect of a session that had joined the room
\* takes one from both sides, and every other step leaves both sides alone.
C1_SizeIsJoinsMinusLeaves ==
    [][\A r \in RoomIds :
          LET rep    == out'.reply
              joins  == IF /\ rep.op = "joinRoom"
                           /\ "success" \in DOMAIN rep
                           /\ rep.roomId = r
                        THEN 1 ELSE 0
              leaves == IF rep.op = "disconnect" /\ r \in joined[rep.sock]
                        THEN 1 ELSE 0
          IN  Cardinality(DOMAIN participants'[r])
                  = Cardinality(DOMAIN participants[r]) + joins - leaves]_vars

\* C2 (as stated): a room with at least one participant has exactly one entry
\* with isHost = true.
C2_ExactlyOneHost ==
    \A r \in RoomIds :
        DOMAIN participants[r] # {} =>
            Cardinality({k \in DOMAIN participants[r] : participants[r][k].isHost}) = 1

\* C2 (amended): a room never has more than one entry with isHost = true; a
\* room with participants can have none.
C2_AtMostOneHost ==
    \A r \in RoomIds :
        Cardinality({k \in DOMAIN participants[r] : participants[r][k].isHost}) <= 1

\* a room with two participants, one of them the host, the other one having
\* joined while the host was there
C2_Witness ==
    \E r \in RoomIds :
        /\ Cardinality(DOMAIN participants[r]) >= 2
        /\ \E k \in DOMAIN participants[r] : participants[r][k].isHost
        /\ out.reply.op = "joinRoom"
        /\ "success" \in DOMAIN out.reply
        /\ ~out.reply.isHost

\* C3: a user who joined a room, disconnected and joins the same room again with
\* the same user id on another connection has the isHost and the joinedAt of the
\* first join, and the room has one entry for that user id.
C3_RejoinKeepsEntry ==
    \A r \in RoomIds, s \in Sockets :
        LET id == SocketId(s)
        IN  (/\ MapHas(participants[r], id)
             /\ \E s0 \in Sockets \ {s} :
                    /\ conn[s0] = "closed"
                    /\ currentRoom[s0] = r
                    /\ currentUserId[s0] = participants[r][id].userId)
            => LET e == participants[r][id]
                   f == firstJoin[r][e.userId]
               IN  /\ e.isHost = f.isHost
                   /\ e.joinedAt = f.joinedAt
                   /\ {k \in DOMAIN participants[r] :
                          participants[r][k].userId = e.userId} = {id}

\* C4: no room has two participant entries with the same user id, and after a
\* successful joinRoom the room has exactly one entry for the joining user id,
\* the one under the joining session's id.
C4_UniqueUserId ==
    /\ \A r \in RoomIds : \A k1, k2 \in DOMAIN participants[r] :
           participants[r][k1].userId = participants[r][k2].userId => k1 = k2
    /\ (out.reply.op = "joinRoom" /\ "success" \in DOMAIN out.reply) =>
           {k \in DOMAIN participants[out.reply.roomId] :
               participants[out.reply.roomId][k].userId = out.reply.userId}
             = {SocketId(out.reply.sock)}

\* a join has just been announced as a reconnection, and the session that held
\* the user id before is still connected and has no entry any more
C4_Witness ==
    /\ out.reply.op = "joinRoom"
    /\ "success" \in DOMAIN out.reply
    /\ out.emits[1].isReconnection
    /\ \E s0 \in Sockets \ {out.reply.sock} :
           /\ conn[s0] = "open"
           /\ currentRoom[s0] = out.reply.roomId
           /\ currentUserId[s0] = out.reply.userId
           /\ ~MapHas(participants[out.reply.roomId], SocketId(s0))

\* C5: when a joinRoom replaces the entry another session holds for
\* the user id, the new entry has the old entry's isHost and joinedAt, and the
\* old entry is gone.
C5_ReplacementCarriesEntry ==
    [][LET rep == out'.reply
       IN  (rep.op = "joinRoom" /\ "success" \in DOMAIN rep) =>
               \A ex \in ExistingKeys(rep.roomId, rep.userId) \ {SocketId(rep.sock)} :
                   LET new == participants'[rep.roomId][SocketId(rep.sock)]
                       old == participants[rep.roomId][ex]
                   IN  /\ new.isHost = old.isHost
                       /\ new.joinedAt = old.joinedAt
                       /\ ~MapHas(participants'[rep.roomId], ex)]_vars

\* C6: when a joinRoom replaces a previous session of the same user id, the
\* previous session's producer transport, consumer transport, producers and
\* consumers are closed and removed from the room's maps by that join.
C6_ReplacedSessionCleaned ==
    [][LET rep == out'.reply
       IN  (rep.op = "joinRoom" /\ "success" \in DOMAIN rep) =>
               \A s0 \in Sockets \ {rep.sock} :
                   SocketId(s0) \in ExistingKeys(rep.roomId, rep.userId) =>
                       LET r  == rep.roomId
                           id == SocketId(s0)
                       IN  /\ ~MapHas(producerTransports'[r], id)
                           /\ ~MapHas(consumerTransports'[r], id)
                           /\ KeysOf(producers'[r], s0) = {}
                           /\ KeysOf(consumers'[r], s0) = {}
                           /\ MapHas(producerTransports[r], id) =>
                                  transports'[producerTransports[r][id]].closed
                           /\ MapHas(consumerTransports[r], id) =>
                                  transports'[consumerTransports[r][id]].closed
                           /\ \A k \in KeysOf(producers[r], s0) :
                                  producerHandles'[producers[r][k]].closed
                           /\ \A k \in KeysOf(consumers[r], s0) :
                                  consumerHandles'[consumers[r][k]].closed]_vars

(***************************************************************************)
(* Properties of room deletion.                                            *)
(***************************************************************************)

\* C7: a delete request that carries a user id other than the room's hostUserId
\* is answered 403, one that carries a user id for an unknown room id is
\* answered 404, and in both cases the registry, the rooms' participants,
\* handles and messages are unchanged and no roomDeleted event is sent.
C7_RefusedDeleteChangesNothing ==
    [][LET rep == out'.reply
       IN  rep.op = "deleteRoom" =>
               /\ (rep.userId # NoUser /\ rep.roomId \in rooms
                      /\ rep.userId # hostUserId[rep.roomId]) => rep.status = 403
               /\ (rep.userId # NoUser /\ rep.roomId \notin rooms) => rep.status = 404
               /\ rep.status \in {403, 404} =>
                      /\ UNCHANGED <<roomVars, gwVars>>
                      /\ out'.emits = <<>>]_vars

\* a non-host has just been refused while the room had a participant, a
\* message and an open producer
C7_Witness ==
    /\ out.reply.op = "deleteRoom"
    /\ out.reply.status = 403
    /\ DOMAIN participants[out.reply.roomId] # {}
    /\ messages[out.reply.roomId] # <<>>
    /\ \E k \in DOMAIN producers[out.reply.roomId] :
           ~producerHandles[producers[out.reply.roomId][k]].closed

\* C8: a delete of an existing room by its hostUserId closes every producer
\* transport, consumer transport, producer and consumer stored in the room and
\* removes the room from the registry; from then on the room id stays out of the
\* registry and every get of it is answered 404.
C8_HostDeleteClosesAll ==
    [][/\ LET rep == out'.reply
          IN  (rep.op = "deleteRoom" /\ rep.userId # NoUser /\ rep.roomId \in rooms
                  /\ rep.userId = hostUserId[rep.roomId]) =>
                  LET r == rep.roomId
                  IN  /\ rep.status = 200
                      /\ r \notin rooms'
                      /\ \A t \in MapValues(producerTransports[r]) \cup
                                  MapValues(consumerTransports[r]) : transports'[t].closed
                      /\ \A q \in MapValues(producers[r]) : producerHandles'[q].closed
                      /\ \A c \in MapValues(consumers[r]) : consumerHandles'[c].closed
       /\ \A r \in RoomIds :
              (r <= nextRoom /\ r \notin rooms) =>
                  /\ r \notin rooms'
                  /\ (out'.reply.op = "getRoom" /\ out'.reply.roomId = r)
                         => out'.reply.status = 404]_vars

\* the host has just deleted a room that held transports, a producer and a
\* consumer, all of them closed now
C8_Witness ==
    /\ out.reply.op = "deleteRoom"
    /\ out.reply.status = 200
    /\ DOMAIN producerTransports[out.reply.roomId] # {}
    /\ DOMAIN consumerTransports[out.reply.roomId] # {}
    /\ producerHandles # <<>>
    /\ consumerHandles # <<>>
    /\ \A t \in DOMAIN transports : transports[t].closed
    /\ \A q \in DOMAIN producerHandles : producerHandles[q].closed
    /\ \A c \in DOMAIN consumerHandles : consumerHandles[c].closed

(***************************************************************************)
(* Properties of produce and consume.                                      *)
(***************************************************************************)

\* C9: when the second (or a later) produce of a kind by a session has been
\* answered, the session has exactly one producer of that kind that is not
\* closed, the one just created; the room's producers map holds it under the
\* session's key for the kind; the producers of the earlier calls are closed.
C9_OneLiveProducerPerKind ==
    LET rep == out.reply
    IN  (rep.op = "produce" /\ "id" \in DOMAIN rep) =>
            LET s    == rep.sock
                kind == producerHandles[rep.id].kind
                made == {q \in DOMAIN producerHandles :
                            /\ producerHandles[q].owner = s
                            /\ producerHandles[q].kind = kind}
                key  == ProducerKey(s, kind)
            IN  Cardinality(made) >= 2 =>
                    /\ {q \in made : ~producerHandles[q].closed} = {rep.id}
                    /\ MapHas(producers[currentRoom[s]], key)
                    /\ producers[currentRoom[s]][key] = rep.id

\* C10: a consume request for which canConsume is false is answered with an
\* error, starts no call that could create a consumer, and leaves the consumer
\* handles and the rooms' consumers maps as they were.
C10_RejectedConsumeCreatesNothing ==
    [][\A s \in Sockets, q \in 1 .. MaxProducers, caps \in Caps :
          (ConsumeStart(s, q, caps) /\ ~CanConsume(q, caps)) =>
              /\ out'.reply.op = "consume"
              /\ out'.reply.sock = s
              /\ "error" \in DOMAIN out'.reply
              /\ UNCHANGED <<consumers, consumerHandles, pending>>]_vars

\* a consume has just been refused for an open producer, asked by a session
\* that has a consumer transport in its room
C10_Witness ==
    /\ out.reply.op = "consume"
    /\ "error" \in DOMAIN out.reply
    /\ out.reply.error = "Cannot consume this producer"
    /\ currentRoom[out.reply.sock] # NoRoom
    /\ MapHas(consumerTransports[currentRoom[out.reply.sock]], SocketId(out.reply.sock))
    /\ \E q \in DOMAIN producerHandles : ~producerHandles[q].closed

(***************************************************************************)
(* Properties of the disconnect cleanup.                                   *)
(***************************************************************************)

\* C11: when the disconnect handler of a session has run, no room's
\* producerTransports, consumerTransports, producers or consumers map has an
\* entry of that session (under its id, or holding a handle it owns), and every
\* transport, producer and consumer the session owns is closed.
C11_DisconnectCleansSession ==
    (out.reply.op = "disconnect") =>
        LET s  == out.reply.sock
            id == SocketId(s)
        IN  /\ \A r \in RoomIds :
                   /\ ~MapHas(producerTransports[r], id)
                   /\ ~MapHas(consumerTransports[r], id)
                   /\ \A k \in DOMAIN producerTransports[r] :
                          transports[producerTransports[r][k]].owner # s
                   /\ \A k \in DOMAIN consumerTransports[r] :
                          transports[consumerTransports[r][k]].owner # s
                   /\ \A k \in DOMAIN producers[r] :
                          producerHandles[producers[r][k]].owner # s
                   /\ \A k \in DOMAIN consumers[r] :
                          consumerHandles[consumers[r][k]].owner # s
            /\ \A t \in DOMAIN transports : transports[t].owner = s => transports[t].closed
            /\ \A q \in DOMAIN producerHandles :
                   producerHandles[q].owner = s => producerHandles[q].closed
            /\ \A c \in DOMAIN consumerHandles :
                   consumerHandles[c].owner = s => consumerHandles[c].closed

\* C12: at the disconnect of a session that is a participant of its room, every
\* other connected participant of the room is sent exactly one peerLeft for the
\* session and exactly one producerClosed for each open producer the session
\* owns.
C12_DisconnectNotifiesPeers ==
    [][LET rep == out'.reply
       IN  (/\ rep.op = "disconnect"
            /\ currentRoom[rep.sock] # NoRoom
            /\ MapHas(participants[currentRoom[rep.sock]], SocketId(rep.sock))) =>
               LET s     == rep.sock
                   r     == currentRoom[s]
                   peers == {t \in Sockets \ {s} :
                                conn[t] = "open" /\ MapHas(participants[r], SocketId(t))}
                   owned == {q \in DOMAIN producerHandles :
                                producerHandles[q].owner = s /\ ~producerHandles[q].closed}
                   sent(t, ev) == {i \in DOMAIN out'.emits :
                                      out'.emits[i].ev = ev /\ t \in out'.emits[i].to}
               IN  \A t \in peers :
                       /\ Cardinality({i \in sent(t, "peerLeft") :
                              out'.emits[i].socketId = SocketId(s)}) = 1
                       /\ \A q \in owned :
                              Cardinality({i \in sent(t, "producerClosed") :
                                  out'.emits[i].producerId = q}) = 1]_vars

\* C13: the disconnect handler run a second time for the same session changes no
\* room map and no handle, and sends no peerLeft or producerClosed to anyone.
C13_SecondCleanupIsNoOp ==
    [][(out'.reply.op = "disconnect" /\ conn[out'.reply.sock] = "closed") =>
           /\ UNCHANGED <<roomVars, gwVars>>
           /\ \A i \in DOMAIN out'.emits : out'.emits[i].to = {}]_vars


\* C14: when the disconnect cleanup of a session has run while one of its
\* operations was suspended at a gateway call (transport creation, produce,
\* consume), the operation on resuming answers an error and stores no handle:
\* no room map and no handle changes.
C14_CleanupWinsOverInFlight ==
    [][\A req \in BagToSet(pending) :
           (pending' = RemovePending(req) /\ conn[req.sock] = "closed") =>
               /\ "error" \in DOMAIN out'.reply
               /\ UNCHANGED <<roomVars, gwVars>>]_vars

\* C15: every open transport, producer and consumer handle is stored in exactly
\* one room's map under exactly one key, so that no open handle is unreachable
\* from the registry.
C15_OpenHandleStoredOnce ==
    /\ \A t \in DOMAIN transports :
           ~transports[t].closed =>
               Cardinality(
                   UNION {{<<r, "send", k>> : k \in {x \in DOMAIN producerTransports[r] :
                                                        producerTransports[r][x] = t}}
                          \cup
                          {<<r, "recv", k>> : k \in {x \in DOMAIN consumerTransports[r] :
                                                        consumerTransports[r][x] = t}}
                          : r \in RoomIds}) = 1
    /\ \A q \in DOMAIN producerHandles :
           ~producerHandles[q].closed =>
               Cardinality(
                   UNION {{<<r, k>> : k \in {x \in DOMAIN producers[r] : producers[r][x] = q}}
                          : r \in RoomIds}) = 1
    /\ \A c \in DOMAIN consumerHandles :
           ~consumerHandles[c].closed =>
               Cardinality(
                   UNION {{<<r, k>> : k \in {x \in DOMAIN consumers[r] : consumers[r][x] = c}}
                          : r \in RoomIds}) = 1

\* C16 (as stated): connectProducerTransport, connectConsumerTransport, produce
\* and consume by a session that is in no room, or has no transport of the
\* needed direction in its room's map, answer an error, change no room map and
\* no handle, start no engine operation, call the engine not at all and
\* broadcast nothing.
C16_EarlyRequestNoGatewayCall ==
    [][/\ LET rep  == out'.reply
               s    == rep.sock
               r    == currentRoom[s]
               m    == IF rep.op \in {"connectProducerTransport", "produce"}
                       THEN producerTransports ELSE consumerTransports
           IN  (/\ rep.op \in {"connectProducerTransport", "connectConsumerTransport",
                                "produce", "consume"}
                /\ PendingCount' >= PendingCount
                /\ (r = NoRoom \/ ~MapHas(m[r], SocketId(s)))) =>
                   /\ "error" \in DOMAIN rep
                   /\ UNCHANGED <<roomVars, gwVars, pending>>
                   /\ out'.emits = <<>>
                   /\ rep.gateway = <<>>
        /\ \A req \in BagToSet(pending') :
               (CopiesIn(req, pending') > CopiesIn(req, pending)
                /\ req.op \in {"produce", "consume"}) =>
                   /\ currentRoom[req.sock] # NoRoom
                   /\ MapHas((IF req.op = "produce" THEN producerTransports
                               ELSE consumerTransports)[currentRoom[req.sock]],
                             SocketId(req.sock))
      ]_vars

\* C16 (amended): the same, except that consume by a session that is in a room
\* asks the engine canConsume before it looks up the transport; no other engine
\* call is made.
C16_EarlyRequestChangesNothing ==
    [][/\ LET rep  == out'.reply
               s    == rep.sock
               r    == currentRoom[s]
               m    == IF rep.op \in {"connectProducerTransport", "produce"}
                       THEN producerTransports ELSE consumerTransports
           IN  (/\ rep.op \in {"connectProducerTransport", "connectConsumerTransport",
                                "produce", "consume"}
                /\ PendingCount' >= PendingCount
                /\ (r = NoRoom \/ ~MapHas(m[r], SocketId(s)))) =>
                   /\ "error" \in DOMAIN rep
                   /\ UNCHANGED <<roomVars, gwVars, pending>>
                   /\ out'.emits = <<>>
                   /\ \/ rep.gateway = <<>>
                      \/ rep.op = "consume" /\ r # NoRoom /\ rep.gateway = <<"canConsume">>
        /\ \A req \in BagToSet(pending') :
               (CopiesIn(req, pending') > CopiesIn(req, pending)
                /\ req.op \in {"produce", "consume"}) =>
                   /\ currentRoom[req.sock] # NoRoom
                   /\ MapHas((IF req.op = "produce" THEN producerTransports
                               ELSE consumerTransports)[currentRoom[req.sock]],
                             SocketId(req.sock))
      ]_vars

\* a joined session without a consumer transport has been refused a consume
\* after the engine was asked canConsume
C16_Witness ==
    /\ out.reply.op = "consume"
    /\ "error" \in DOMAIN out.reply
    /\ out.reply.error = "Consumer transport not found"
    /\ out.reply.gateway = <<"canConsume">>
    /\ currentRoom[out.reply.sock] # NoRoom
    /\ ~MapHas(consumerTransports[currentRoom[out.reply.sock]], SocketId(out.reply.sock))

\* C17: every broadcast is made in a registry that already holds the change it
\* announces: peer-joined with the participant entered, newProducer with the
\* producer stored, producerClosed with the producer closed and out of the map,
\* peerLeft with the participant removed, newMessage with the message appended,
\* roomDeleted with the room out of the registry.  The handlers other than the
\* delete route change nothing of what they announce after their emit, so for
\* them the registry of the emit is the one the step ends in.
C17_BroadcastAfterMutation ==
    [][\A i \in DOMAIN out'.emits :
           LET e == out'.emits[i]
               rep == out'.reply
           IN  e.to # {} =>
               /\ e.ev = "roomDeleted" => e.roomId \notin e.registry
               /\ e.ev = "peer-joined" =>
                      /\ MapHas(participants'[rep.roomId], e.socketId)
                      /\ participants'[rep.roomId][e.socketId].userId = e.userId
               /\ e.ev = "newProducer" =>
                      \E k \in DOMAIN producers'[currentRoom[rep.sock]] :
                          producers'[currentRoom[rep.sock]][k] = e.producerId
               /\ e.ev = "producerClosed" =>
                      /\ producerHandles'[e.producerId].closed
                      /\ rep.op = "disconnect" =>
                             \A r \in RoomIds : \A k \in DOMAIN producers'[r] :
                                 producers'[r][k] # e.producerId
               /\ e.ev = "peerLeft" =>
                      ~MapHas(participants'[currentRoom[rep.sock]], e.socketId)
               /\ e.ev = "newMessage" =>
                      \E j \in DOMAIN messages'[rep.roomId] :
                          messages'[rep.roomId][j].id = e.id]_vars

\* C18: a join into a room without participants is answered isHost = TRUE, and
\* a join is answered isHost = TRUE only if every userId that was made host of
\* the room before is the joining userId.
C18_HostNeverReassigned ==
    [][LET rep == out'.reply
       IN  (rep.op = "joinRoom" /\ "isHost" \in DOMAIN rep) =>
               /\ DOMAIN participants[rep.roomId] = {} => rep.isHost
               /\ rep.isHost =>
                      \A u \in DOMAIN firstJoin[rep.roomId] :
                          firstJoin[rep.roomId][u].isHost => u = rep.userId]_vars

\* C19: of two sessions with different userIds that join the same empty room,
\* the one whose join is applied first is answered isHost = TRUE and entered as
\* host, and the one applied second, finding only the first one's entry, is
\* answered isHost = FALSE and entered as no host: the room then has two
\* entries and exactly one host.
C19_OneRacerWinsHost ==
    [][LET rep == out'.reply
           r   == rep.roomId
           id  == SocketId(rep.sock)
       IN  (rep.op = "joinRoom" /\ "isHost" \in DOMAIN rep) =>
               /\ DOMAIN participants[r] = {} =>
                      /\ rep.isHost
                      /\ participants'[r][id].isHost
               /\ (\E k \in DOMAIN participants[r] :
                       /\ DOMAIN participants[r] = {k}
                       /\ k # id
                       /\ participants[r][k].userId # rep.userId
                       /\ participants[r][k].isHost) =>
                      /\ ~rep.isHost
                      /\ ~participants'[r][id].isHost
                      /\ Cardinality(DOMAIN participants'[r]) = 2
                      /\ Cardinality({k \in DOMAIN participants'[r] :
                                         participants'[r][k].isHost}) = 1]_vars

\* both racers are in the room, each on its first join; the second one to be
\* applied has just been answered isHost = FALSE
C19_Witness ==
    /\ out.reply.op = "joinRoom"
    /\ "isHost" \in DOMAIN out.reply
    /\ ~out.reply.isHost
    /\ ~out.emits[1].isReconnection
    /\ LET r == out.reply.roomId
       IN  /\ Cardinality(DOMAIN participants[r]) = 2
           /\ Cardinality({participants[r][k].userId : k \in DOMAIN participants[r]}) = 2
           /\ \A k \in DOMAIN participants[r] :
                  /\ participants[r][k].isHost = (participants[r][k].joinedAt = 1)
                  /\ participants[r][k].isHost = (k # SocketId(out.reply.sock))

C21_SendNeedsParticipant ==
    [][LET rep == out'.reply
       IN  (/\ rep.op = "sendMessage"
            /\ ~(/\ currentRoom[rep.sock] = rep.roomId
                 /\ MapHas(participants[rep.roomId], SocketId(rep.sock)))) =>
               /\ "error" \in DOMAIN rep
               /\ messages' = messages
               /\ out'.emits = <<>>]_vars

\* a session whose entry was replaced by a reconnection of its user on another
\* connection has sent a message to the room and been refused
C21_Witness ==
    /\ out.reply.op = "sendMessage"
    /\ "error" \in DOMAIN out.reply
    /\ out.reply.error = "Participant not found"
    /\ conn[out.reply.sock] = "open"
    /\ currentRoom[out.reply.sock] = out.reply.roomId
    /\ \E k \in DOMAIN participants[out.reply.roomId] :
           /\ k # SocketId(out.reply.sock)
           /\ participants[out.reply.roomId][k].userId = currentUserId[out.reply.sock]

\* C22: a sendMessage answered success appends exactly one message to the
\* room's messages and makes exactly one newMessage broadcast, of that message,
\* which goes to the sender and to every other connected session with an entry
\* in the room's participants map; the broadcasts of a room therefore come in
\* the order in which its messages are stored.
C22_MessageToWholeRoom ==
    [][LET rep == out'.reply
           r   == rep.roomId
       IN  (rep.op = "sendMessage" /\ "success" \in DOMAIN rep) =>
               /\ Len(messages'[r]) = Len(messages[r]) + 1
               /\ SubSeq(messages'[r], 1, Len(messages[r])) = messages[r]
               /\ messages'[r][Len(messages'[r])].id = rep.messageId
               /\ \A q \in RoomIds \ {r} : messages'[q] = messages[q]
               /\ Len(out'.emits) = 1
               /\ out'.emits[1].ev = "newMessage"
               /\ out'.emits[1].id = rep.messageId
               /\ rep.sock \in out'.emits[1].to
               /\ \A t \in Sockets :
                      (conn[t] = "open" /\ MapHas(participants[r], SocketId(t))) =>
                          t \in out'.emits[1].to]_vars

\* the second message of a room has been sent while two sessions are in the
\* room, and both have been sent it
C22_Witness ==
    /\ out.reply.op = "sendMessage"
    /\ "success" \in DOMAIN out.reply
    /\ Len(messages[out.reply.roomId]) = 2
    /\ Cardinality(DOMAIN participants[out.reply.roomId]) = 2
    /\ Cardinality(out.emits[1].to) = 2

\* C23: in every step, of every handler, each room's messages before the step
\* are a prefix of its messages after the step.
C23_MessagesAppendOnly ==
    [][\A r \in RoomIds :
           /\ Len(messages[r]) <= Len(messages'[r])
           /\ SubSeq(messages'[r], 1, Len(messages[r])) = messages[r]]_vars

\* a room holds two messages, the later one behind the earlier one, and other
\* handlers have run since the first was stored
C23_Witness ==
    \E r \in rooms :
        /\ Len(messages[r]) = 2
        /\ messages[r][1].id < messages[r][2].id
        /\ out.reply.op = "sendMessage"
        /\ \E t \in Sockets : conn[t] = "closed"

\* C24: the messages in the answer of a successful joinRoom are the last
\* min(HistoryLimit, n) of the n messages the room holds, in the stored order.
C24_JoinReturnsLastFifty ==
    [][LET rep == out'.reply
       IN  (rep.op = "joinRoom" /\ "success" \in DOMAIN rep) =>
               LET stored == messages[rep.roomId]
                   n      == Len(stored)
                   m      == IF n < HistoryLimit THEN n ELSE HistoryLimit
               IN  /\ Len(rep.messages) = m
                   /\ \A i \in 1 .. m : rep.messages[i] = stored[n - m + i]]_vars

\* a join into a room that holds more messages than are returned has been
\* answered the fifty latest
C24_Witness ==
    /\ out.reply.op = "joinRoom"
    /\ "success" \in DOMAIN out.reply
    /\ Len(messages[out.reply.roomId]) = HistoryLimit + 2
    /\ Len(out.reply.messages) = HistoryLimit
    /\ out.reply.messages[1].id = 3
    /\ out.reply.messages[HistoryLimit].id = HistoryLimit + 2

\* C25: the existingProducers of a joinRoom answer and the producers of a
\* getProducers answer hold no producer whose owning session has the caller's
\* user id.
C25_OwnProducersHidden ==
    [][LET rep == out'.reply
           listed == IF rep.op = "joinRoom" /\ "success" \in DOMAIN rep
                     THEN rep.existingProducers
                     ELSE IF rep.op = "getProducers" /\ "producers" \in DOMAIN rep
                     THEN rep.producers
                     ELSE {}
       IN  \A e \in listed :
               currentUserId'[producerHandles[e.producerId].owner]
                   # currentUserId'[rep.sock]]_vars

\* C26: peer-joined, newProducer and peerLeft of a room go to exactly the
\* connected sessions that are in that room and have an entry in its
\* participants map, without the sender.
C26_RecipientsAreParticipants ==
    [][\A i \in DOMAIN out'.emits :
           LET e == out'.emits[i]
               s == out'.reply.sock
               r == IF e.ev = "peer-joined" THEN out'.reply.roomId ELSE currentRoom[s]
           IN  e.ev \in {"peer-joined", "newProducer", "peerLeft"} =>
                   e.to = {t \in Sockets \ {s} :
                              /\ conn'[t] = "open"
                              /\ currentRoom'[t] = r
                              /\ MapHas(participants'[r], SocketId(t))}]_vars

\* C27: a joinRoom that finds and replaces an entry of the same user id carries
\* isReconnection = TRUE both in its answer and in its peer-joined broadcast; a
\* joinRoom that replaces nothing carries a true flag in neither.
C27_ReconnectionFlagInBoth ==
    [][LET rep == out'.reply
       IN  (rep.op = "joinRoom" /\ "success" \in DOMAIN rep) =>
               LET replaced == ExistingKeys(rep.roomId, rep.userId) # {}
                   inReply  == "isReconnection" \in DOMAIN rep /\ rep.isReconnection
                   inEmit   == out'.emits[1].isReconnection
               IN  /\ out'.emits[1].ev = "peer-joined"
                   /\ inEmit = replaced
                   /\ inReply = replaced]_vars

\* C28: a handler that fails, by itself or in a call of the media engine,
\* answers an error through the callback of the request it was started for and
\* leaves the connection as it is; the session whose request was answered an
\* error can have its next request handled.
C28_ErrorKeepsConnection ==
    /\ [][/\ "error" \in DOMAIN out'.reply =>
                 conn'[out'.reply.sock] = conn[out'.reply.sock]
           /\ \A req \in BagToSet(pending) :
                  pending' = RemovePending(req) =>
                      /\ out'.reply.op = req.op
                      /\ out'.reply.sock = req.sock
                      /\ conn' = conn]_vars
    /\ []((/\ "error" \in DOMAIN out.reply
           /\ out.reply.op \in {"createProducerTransport", "produce"}
           /\ conn[out.reply.sock] = "open") =>
              /\ ENABLED GetProducers(out.reply.sock)
              /\ ENABLED (\E k \in Kinds : ProduceStart(out.reply.sock, k)))

\* the media engine has rejected a produce of a joined session, which has been
\* answered the error and is still connected
C28_Witness ==
    /\ out.reply.op = "produce"
    /\ "error" \in DOMAIN out.reply
    /\ out.reply.error = "Server error in produce"
    /\ conn[out.reply.sock] = "open"
    /\ currentRoom[out.reply.sock] # NoRoom
    /\ MapHas(producerTransports[currentRoom[out.reply.sock]], SocketId(out.reply.sock))
    /\ ~transports[producerTransports[currentRoom[out.reply.sock]]
                                     [SocketId(out.reply.sock)]].closed

\* C29: every request that is suspended at a call of the media engine is
\* eventually answered, also when the engine never settles the call.
C29_RequestEventuallyAnswered ==
    (PendingCount > 0) ~> (PendingCount = 0)

\* C30: when a produce request is answered with a new producer and no other
\* request of that session is still in flight, every open producer that the
\* session's requests created on that transport is registered in the room's
\* producers map (none is left open and overwritten by an overlapping request).
C30_OverlapLeavesNoStrayHandle ==
    [][LET rep == out'.reply
       IN  (/\ rep.op = "produce"
            /\ "id" \in DOMAIN rep
            /\ \A req \in BagToSet(pending') : req.sock # rep.sock) =>
               \A q \in DOMAIN producerHandles' :
                   (/\ producerHandles'[q].transport = producerHandles'[rep.id].transport
                    /\ ~producerHandles'[q].closed) =>
                       \E key \in DOMAIN producers'[currentRoom'[rep.sock]] :
                           producers'[currentRoom'[rep.sock]][key] = q]_vars

\* C31: the disconnect of a session closes and unregisters no transport,
\* producer or consumer that another session created: each of them is as open
\* and as registered after the step as before it.
C31_DisconnectTouchesOwnHandlesOnly ==
    [][(out'.reply.op = "disconnect") =>
          LET s == out'.reply.sock
          IN  /\ \A t \in DOMAIN transports :
                     transports[t].owner # s => transports'[t] = transports[t]
              /\ \A q \in DOMAIN producerHandles :
                     producerHandles[q].owner # s => producerHandles'[q] = producerHandles[q]
              /\ \A c \in DOMAIN consumerHandles :
                     consumerHandles[c].owner # s => consumerHandles'[c] = consumerHandles[c]
              /\ \A r \in RoomIds :
                     /\ \A k \in DOMAIN producerTransports[r] :
                            transports[producerTransports[r][k]].owner # s =>
                                /\ MapHas(producerTransports'[r], k)
                                /\ producerTransports'[r][k] = producerTransports[r][k]
                     /\ \A k \in DOMAIN consumerTransports[r] :
                            transports[consumerTransports[r][k]].owner # s =>
                                /\ MapHas(consumerTransports'[r], k)
                                /\ consumerTransports'[r][k] = consumerTransports[r][k]
                     /\ \A k \in DOMAIN producers[r] :
                            producerHandles[producers[r][k]].owner # s =>
                                /\ MapHas(producers'[r], k)
                                /\ producers'[r][k] = producers[r][k]
                     /\ \A k \in DOMAIN consumers[r] :
                            consumerHandles[consumers[r][k]].owner # s =>
                                /\ MapHas(consumers'[r], k)
                                /\ consumers'[r][k] = consumers[r][k]]_vars

\* C32: in every reachable state no room has two different participant
\* entries that both have isHost = true, whatever joins, repeated joins,
\* reconnections and disconnects came before.
C32_NoTwoHosts ==
    \A r \in RoomIds :
        \A k1 \in DOMAIN participants[r], k2 \in DOMAIN participants[r] :
            (participants[r][k1].isHost /\ participants[r][k2].isHost) => k1 = k2

\* a join answered isHost = true in a room that has another participant: the
\* host's entry was carried over by a reconnection or a repeated join
C32_Witness ==
    /\ out.reply.op = "joinRoom"
    /\ "success" \in DOMAIN out.reply
    /\ out.reply.isHost
    /\ Cardinality(DOMAIN participants[out.reply.roomId]) >= 2
    /\ out.emits[1].isReconnection

\* C33: in every room a participant entry with isHost = true has the userId
\* that is the room's hostUserId.
C33_HostEntryIsRoomHost ==
    \A r \in RoomIds :
        \A k \in DOMAIN participants[r] :
            participants[r][k].isHost => participants[r][k].userId = hostUserId[r]

\* C34: a session has a participant entry in at most one room, and a session
\* whose connection is closed has an entry in none.
C34_SessionInOneRoom ==
    \A s \in Sockets :
        LET entries == {r \in RoomIds : MapHas(participants[r], SocketId(s))}
        IN  /\ Cardinality(entries) <= 1
            /\ conn[s] = "closed" => entries = {}

\* C35: a request of a session whose room has been deleted is refused: its
\* sendMessage is answered with an error and appends nothing, and its
\* createProducerTransport, createConsumerTransport, produce and consume are
\* answered at once, without a call of the media engine being started.
C35_DeletedRoomRefusesRequests ==
    [][/\ LET rep == out'.reply
          IN  (/\ rep.op = "sendMessage"
               /\ currentRoom[rep.sock] # NoRoom
               /\ currentRoom[rep.sock] \notin rooms
               /\ rep.roomId = currentRoom[rep.sock]) =>
                  /\ "error" \in DOMAIN rep
                  /\ messages' = messages
       /\ \A req \in BagToSet(pending') :
              (~req.hung /\ CopiesIn(req, pending') > CopiesIn(req, pending)) =>
                  currentRoom[req.sock] \in rooms]_vars

\* C36: a peerLeft for a userId is sent to a peer only in a disconnect step
\* that removes a participant entry of that userId: the disconnecting session
\* had an entry with that userId in its room before the step and the entry is
\* gone after it.
C36_PeerLeftOnlyWhenEntryRemoved ==
    [][\A i \in DOMAIN out'.emits :
           (out'.emits[i].ev = "peerLeft" /\ out'.emits[i].to # {}) =>
               LET s  == out'.reply.sock
                   r  == currentRoom[s]
                   id == SocketId(s)
               IN  /\ MapHas(participants[r], id)
                   /\ participants[r][id].userId = out'.emits[i].userId
                   /\ ~MapHas(participants'[r], id)]_vars

\* C37: a consume request is answered with a consumer only for a producer that
\* is registered in the producers map of the caller's room.
C37_ConsumeOnlyFromOwnRoom ==
    [][LET rep == out'.reply
       IN  (rep.op = "consume" /\ "id" \in DOMAIN rep) =>
               \E k \in DOMAIN producers[currentRoom[rep.sock]] :
                   producers[currentRoom[rep.sock]][k] = rep.producerId]_vars

\* C38: pauseConsumer and resumeConsumer for the id of a consumer that another
\* session created are answered with an error, and the consumer is as paused
\* after the answer as before it.
C38_PauseResumeOwnConsumersOnly ==
    [][LET rep == out'.reply
       IN  (/\ rep.op \in ConsumerOps
            /\ rep.consumerId \in DOMAIN consumerHandles
            /\ consumerHandles[rep.consumerId].owner # rep.sock) =>
               /\ "error" \in DOMAIN rep
               /\ consumerHandles'[rep.consumerId].paused
                      = consumerHandles[rep.consumerId].paused]_vars

\* C39: when a produce request is answered with the failure of the media
\* engine's produce call, nothing is broadcast and the producer of that kind
\* which the session had on its transport (the latest one it created there)
\* is open and registered under the session's key as before the request.
C39_FailedProduceKeepsProducer ==
    [][\A req \in BagToSet(pending) :
           (/\ req.op = "produce"
            /\ pending' = RemovePending(req)
            /\ out'.reply.op = "produce"
            /\ "error" \in DOMAIN out'.reply) =>
               LET mine == {q \in DOMAIN producerHandles :
                               /\ producerHandles[q].owner = req.sock
                               /\ producerHandles[q].kind = req.kind
                               /\ producerHandles[q].transport = req.transport}
                   key  == ProducerKey(req.sock, req.kind)
                   r    == currentRoom[req.sock]
               IN  /\ out'.emits = <<>>
                   /\ (mine # {} /\ ~transports[req.transport].closed) =>
                          LET last == CHOOSE q \in mine : \A p \in mine : p <= q
                          IN  /\ ~producerHandles'[last].closed
                              /\ MapHas(producers'[r], key)
                              /\ producers'[r][key] = last]_vars

\* C40: when a transport T is reported closed by the media engine, the step
\* removes no registry entry but T's own: every entry of the transport maps
\* that holds another transport, and every producer and consumer entry whose
\* handle is on another transport, is in its map after the step as before it.
C40_TransportClosedRemovesOwnEntry ==
    [][(out'.reply.op = "dtlsstatechange") =>
          LET t == out'.reply.transport
          IN  \A r \in RoomIds :
                  /\ \A k \in DOMAIN producerTransports[r] :
                         producerTransports[r][k] # t =>
                             /\ MapHas(producerTransports'[r], k)
                             /\ producerTransports'[r][k] = producerTransports[r][k]
                  /\ \A k \in DOMAIN consumerTransports[r] :
                         consumerTransports[r][k] # t =>
                             /\ MapHas(consumerTransports'[r], k)
                             /\ consumerTransports'[r][k] = consumerTransports[r][k]
                  /\ \A k \in DOMAIN producers[r] :
                         producerHandles[producers[r][k]].transport # t =>
                             /\ MapHas(producers'[r], k)
                             /\ producers'[r][k] = producers[r][k]
                  /\ \A k \in DOMAIN consumers[r] :
                         consumerHandles[consumers[r][k]].transport # t =>
                             /\ MapHas(consumers'[r], k)
                             /\ consumers'[r][k] = consumers[r][k]]_vars

====
